---- MODULE Spec2Model ----
(***************************************************************************)
(* A model of the cookiejar package: the Jar coordinator (SetCookies,      *)
(* Cookies), the Cookie record and its matching predicates, the two        *)
(* storage backends (FlatStorage, FancyStorage), the least-used selector   *)
(* and the public-suffix decision used by the acceptance pipeline.         *)
(*                                                                         *)
(* Strings are TLA+ strings; a time.Time is an integer number of ticks     *)
(* (nanoseconds), the zero time.Time being 0.                              *)
(***************************************************************************)
EXTENDS Integers, Sequences, FiniteSets, TLC

(***************************************************************************)
(* Bounds of the model.                                                    *)
(***************************************************************************)
MaxClock == 3        \* time.Now() never returns more than this
MaxAdvance == 1      \* largest step of the wall clock between two reads
MaxBatch == 2        \* longest []*http.Cookie handed to SetCookies
Second == 2          \* ticks per time.Second (scaled down from 1e9)
MaxCreated == 2      \* SetCookies is not called once jar.total would pass this
MaxDeleted == 1      \* ... nor once jar.empty would pass this
MaxEvictBatch == 4   \* longest batch handed to a jar that evicts
MaxEvictCreated == 3 \* bound of jar.total for a jar that evicts
MaxProtectCreated == 5   \* ... and for a jar that holds three cookies

(***************************************************************************)
(* Package strings, as far as the package uses it.                         *)
(***************************************************************************)
At(s, i) == SubSeq(s, i, i)

HasSuffix(s, suffix) ==
    /\ Len(suffix) <= Len(s)
    /\ SubSeq(s, Len(s) - Len(suffix) + 1, Len(s)) = suffix

HasPrefix(s, prefix) ==
    /\ Len(prefix) <= Len(s)
    /\ SubSeq(s, 1, Len(prefix)) = prefix

\* strings.Index for a one-character separator; 0-based, -1 when absent
Index(s, ch) ==
    IF \E i \in 1..Len(s) : At(s, i) = ch
    THEN (CHOOSE i \in 1..Len(s) :
             At(s, i) = ch /\ \A j \in 1..(i - 1) : At(s, j) # ch) - 1
    ELSE -1

\* strings.LastIndex for a one-character separator; 0-based, -1 when absent
LastIndex(s, ch) ==
    IF \E i \in 1..Len(s) : At(s, i) = ch
    THEN (CHOOSE i \in 1..Len(s) :
             At(s, i) = ch /\ \A j \in (i + 1)..Len(s) : At(s, j) # ch) - 1
    ELSE -1

\* strings.Count for a one-character separator
Count(s, ch) == Cardinality({i \in 1..Len(s) : At(s, i) = ch})

ToLowerCh(c) ==
    CASE c = "A" -> "a" [] c = "B" -> "b" [] c = "C" -> "c" [] c = "D" -> "d"
      [] c = "E" -> "e" [] c = "F" -> "f" [] c = "G" -> "g" [] c = "H" -> "h"
      [] c = "I" -> "i" [] c = "J" -> "j" [] c = "K" -> "k" [] c = "L" -> "l"
      [] c = "M" -> "m" [] c = "N" -> "n" [] c = "O" -> "o" [] c = "P" -> "p"
      [] c = "Q" -> "q" [] c = "R" -> "r" [] c = "S" -> "s" [] c = "T" -> "t"
      [] c = "U" -> "u" [] c = "V" -> "v" [] c = "W" -> "w" [] c = "X" -> "x"
      [] c = "Y" -> "y" [] c = "Z" -> "z" [] OTHER -> c

\* strings.ToLower (ASCII); a string without upper-case letters is returned
\* as it is
RECURSIVE ToLower(_)
ToLower(s) ==
    IF \A i \in 1..Len(s) : ToLowerCh(At(s, i)) = At(s, i) THEN s
    ELSE ToLowerCh(At(s, 1)) \o ToLower(SubSeq(s, 2, Len(s)))

\* strings.Split(s, "."): the sequence of labels of s
RECURSIVE Split(_)
Split(s) ==
    LET i == Index(s, ".")
    IN  IF i = -1 THEN <<s>>
        ELSE <<SubSeq(s, 1, i)>> \o Split(SubSeq(s, i + 2, Len(s)))

\* strings.Join(labels, ".")
RECURSIVE Join(_)
Join(labels) ==
    IF Len(labels) = 0 THEN ""
    ELSE IF Len(labels) = 1 THEN labels[1]
    ELSE labels[1] \o "." \o Join(Tail(labels))

(***************************************************************************)
(* URL helpers.  A *url.URL is a record [Scheme, Host, Path].              *)
(***************************************************************************)
URL(scheme, h, p) == [Scheme |-> scheme, Host |-> h, Path |-> p]

\* host(u): the canonical host, or the error of net.SplitHostPort
host(u) ==
    LET Port(nodot) ==
            IF Index(nodot, ":") # -1
            THEN IF Count(nodot, ":") = 1
                 THEN [host |-> SubSeq(nodot, 1, Index(nodot, ":")),
                       err |-> FALSE]
                 ELSE [host |-> "", err |-> TRUE]
            ELSE [host |-> nodot, err |-> FALSE]
        Dot(lower) == Port(IF HasSuffix(lower, ".")
                           THEN SubSeq(lower, 1, Len(lower) - 1) ELSE lower)
    IN  Dot(ToLower(u.Host))

isSecure(u) == ToLower(u.Scheme) = "https"

\* isHTTP without the test of the scheme: with it NonHTTPIsolation fails
isHTTPAny(u) == TRUE

isHTTP(u) == ToLower(u.Scheme) \in {"http", "https"}

DigitVal(c) ==
    CASE c = "0" -> 0 [] c = "1" -> 1 [] c = "2" -> 2 [] c = "3" -> 3
      [] c = "4" -> 4 [] c = "5" -> 5 [] c = "6" -> 6 [] c = "7" -> 7
      [] c = "8" -> 8 [] c = "9" -> 9 [] OTHER -> -1

RECURSIVE DecVal(_)
DecVal(s) ==
    IF Len(s) = 0 THEN 0
    ELSE 10 * DecVal(SubSeq(s, 1, Len(s) - 1)) + DigitVal(At(s, Len(s)))

\* one field of a dotted quad that net.IP.String() prints back unchanged
IsOctet(s) ==
    /\ Len(s) \in 1..3
    /\ \A i \in 1..Len(s) : DigitVal(At(s, i)) >= 0
    /\ (Len(s) > 1 => At(s, 1) # "0")
    /\ DecVal(s) <= 255

\* isIP(host): net.ParseIP(host) succeeds and prints back as host (IPv4)
isIP(h) ==
    LET parts == Split(h)
    IN  Len(parts) = 4 /\ \A i \in 1..4 : IsOctet(parts[i])

\* a default path that keeps the last "/" of the request path; with it
\* DefaultPathShape fails
defaultPathToSlash(u) ==
    LET path == u.Path
        i == LastIndex(path, "/")
    IN  IF Len(path) = 0 \/ At(path, 1) # "/" THEN "/"
        ELSE SubSeq(path, 1, i + 1)

defaultPath(u) ==
    LET path == u.Path
        i == LastIndex(path, "/")
    IN  IF Len(path) = 0 \/ At(path, 1) # "/" THEN "/"
        ELSE IF i = 0 THEN "/"
        ELSE SubSeq(path, 1, i)


(***************************************************************************)
(* The Cookie record (cookie.go).                                          *)
(***************************************************************************)
farFuture == 1000000     \* a point so far in the future that it is never reached

\* &Cookie{}: the zero value
ZeroCookie ==
    [Name |-> "", Value |-> "", Domain |-> "", Path |-> "", Expires |-> 0,
     Secure |-> FALSE, HostOnly |-> FALSE, HttpOnly |-> FALSE,
     Created |-> 0, LastAccess |-> 0]

empty(c) == Len(c.Name) = 0

\* secureEnough without the test: with it SecureIsolation fails
secureEnoughAlways(cookieIsSecure, requestIsSecure) == TRUE

secureEnough(cookieIsSecure, requestIsSecure) ==
    requestIsSecure \/ ~cookieIsSecure

\* domainMatch that treats every cookie as a domain cookie: with it
\* HostOnlyScope fails
domainMatchAny(c, h) ==
    IF c.Domain = h THEN TRUE
    ELSE HasSuffix(h, "." \o c.Domain)

domainMatch(c, h) ==
    IF c.Domain = h THEN TRUE
    ELSE ~c.HostOnly /\ HasSuffix(h, "." \o c.Domain)

\* pathMatch that is content with a prefix: with it PathMatch fails
pathMatchPrefix(c, requestPath) == HasPrefix(requestPath, c.Path)

\* c.Path is never empty for a cookie with a name (see update)
pathMatch(c, requestPath) ==
    IF requestPath = c.Path THEN TRUE
    ELSE IF HasPrefix(requestPath, c.Path) /\ Len(c.Path) > 0
         THEN IF At(c.Path, Len(c.Path)) = "/" THEN TRUE
              ELSE At(requestPath, Len(c.Path) + 1) = "/"
         ELSE FALSE

\* IsExpired without the test: with it NoExpiredOnRetrieval fails
IsExpiredNever(c, now) == FALSE

IsExpired(c, now) == c.Expires # 0 /\ c.Expires < now

shouldSend(c, h, path, secure, now) ==
    /\ domainMatch(c, h)
    /\ pathMatch(c, path)
    /\ ~IsExpired(c, now)
    /\ secureEnough(c.Secure, secure)

\* sendList.Less that looks at Created only: with it SendOrder fails
sendListLessByCreated(a, b) == a.Created < b.Created

\* sendList.Less on two cookies
sendListLess(a, b) ==
    IF Len(a.Path) = Len(b.Path) THEN a.Created < b.Created
    ELSE Len(a.Path) > Len(b.Path)

(***************************************************************************)
(* leastUsed: container/heap over cookieheap.  A heap item is a record     *)
(* [cookie, data]; indices are those of Go (0-based), h[i + 1] is Go's     *)
(* h[i].                                                                   *)
(***************************************************************************)
\* cookieheap.Less with Before for After: with it FlatLRUEviction fails
cookieheapLessBefore(h, i, j) ==
    h[i + 1].cookie.LastAccess < h[j + 1].cookie.LastAccess

cookieheapLess(h, i, j) == h[i + 1].cookie.LastAccess > h[j + 1].cookie.LastAccess

cookieheapSwap(h, i, j) ==
    [h EXCEPT ![i + 1] = h[j + 1], ![j + 1] = h[i + 1]]

\* heap.up
RECURSIVE heapUp(_, _)
heapUp(h, j) ==
    LET i == IF j = 0 THEN 0 ELSE (j - 1) \div 2
    IN  IF i = j \/ ~cookieheapLess(h, j, i) THEN h
        ELSE heapUp(cookieheapSwap(h, i, j), i)

\* heap.down on the first n items
RECURSIVE heapDown(_, _, _)
heapDown(h, i, n) ==
    LET j1 == 2 * i + 1
        j2 == j1 + 1
        j  == IF j2 < n /\ cookieheapLess(h, j2, j1) THEN j2 ELSE j1
    IN  IF j1 >= n THEN h
        ELSE IF ~cookieheapLess(h, j, i) THEN h
        ELSE heapDown(cookieheapSwap(h, i, j), j, n)

heapPush(h, x) == heapUp(Append(h, x), Len(h))

\* heap.Pop: the heap without its root
heapPop(h) ==
    LET n == Len(h) - 1
    IN  SubSeq(heapDown(cookieheapSwap(h, 0, n), 0, n), 1, n)

newLeastUsed(n) == [n |-> n, elem |-> <<>>]

insert(lu, cookie, data) ==
    LET pushed == heapPush(lu.elem, [cookie |-> cookie, data |-> data])
    IN  [lu EXCEPT !.elem = IF Len(pushed) > lu.n THEN heapPop(pushed)
                            ELSE pushed]

elements(lu) == lu.elem

(***************************************************************************)
(* FlatStorage (flat.go).  fc is f.cookies, a sequence of Cookie records;  *)
(* the model's index k stands for Go's index k - 1.  A *Cookie is the      *)
(* position of the record in the sequence.                                 *)
(***************************************************************************)
SameId(c, domain, path, name) ==
    domain = c.Domain /\ path = c.Path /\ name = c.Name

\* the loop of Find from position k on; st is [expiredIdx, oldestIdx, leastUsed]
\* with Go's indices (-1: none)
RECURSIVE FindTrack(_, _, _, _)
FindTrack(fc, now, k, st) ==
    IF k > Len(fc) THEN st
    ELSE LET cookie == fc[k]
         IN  IF st.expiredIdx # -1
             THEN IF IsExpired(cookie, now)
                  THEN FindTrack(fc, now, k + 1,
                                 [st EXCEPT !.expiredIdx = k - 1])
                  ELSE IF cookie.LastAccess < st.leastUsed
                       THEN FindTrack(fc, now, k + 1,
                                      [st EXCEPT !.oldestIdx = k - 1,
                                                 !.leastUsed = cookie.LastAccess])
                       ELSE FindTrack(fc, now, k + 1, st)
             ELSE FindTrack(fc, now, k + 1, st)

\* a Find that never looks for the cookie: with it UniqueIdentity fails
FlatFindFresh(fc, MaxCookies, domain, path, name, now) ==
    [fc |-> Append(fc, ZeroCookie), idx |-> Len(fc) + 1, panic |-> FALSE]

\* FlatStorage.Find: [fc: the new f.cookies, idx: position of the returned
\* cookie (0 when the index expression panics), panic]
FlatFind(fc, MaxCookies, domain, path, name, now) ==
    LET hits == {k \in 1..Len(fc) : SameId(fc[k], domain, path, name)}
        st == FindTrack(fc, now, 1,
                  [expiredIdx |-> -1, oldestIdx |-> -1, leastUsed |-> farFuture])
    IN  IF hits # {}
        THEN [fc |-> fc, idx |-> CHOOSE k \in hits : \A j \in hits : k <= j,
              panic |-> FALSE]
        ELSE IF st.expiredIdx # -1
        THEN [fc |-> [fc EXCEPT ![st.expiredIdx + 1].Name = ""],
              idx |-> st.expiredIdx + 1, panic |-> FALSE]
        ELSE IF MaxCookies > 0 /\ Len(fc) >= MaxCookies
        THEN IF st.oldestIdx = -1
             THEN [fc |-> fc, idx |-> 0, panic |-> TRUE]
             ELSE [fc |-> [fc EXCEPT ![st.oldestIdx + 1].Name = ""],
                   idx |-> st.oldestIdx + 1, panic |-> FALSE]
        ELSE [fc |-> Append(fc, ZeroCookie), idx |-> Len(fc) + 1,
              panic |-> FALSE]

\* FlatStorage.remove(i) with i = k - 1; also used with k beyond the end
FlatRemove(fc, k) ==
    LET n == Len(fc)
    IN  [j \in 1..(n - 1) |-> IF j = k THEN fc[n] ELSE fc[j]]

\* FlatStorage.Delete: [fc, ok]
FlatDelete(fc, domain, path, name) ==
    LET hits == {k \in 1..Len(fc) : SameId(fc[k], domain, path, name)}
    IN  IF hits = {} THEN [fc |-> fc, ok |-> FALSE]
        ELSE [fc |-> FlatRemove(fc, CHOOSE k \in hits : \A j \in hits : k <= j),
              ok |-> TRUE]

\* FlatStorage.Retrieve: the positions of the selected cookies, in scan order
RECURSIVE FlatRetrieveFrom(_, _, _, _, _, _)
FlatRetrieveFrom(fc, k, h, path, secure, now) ==
    IF k > Len(fc) THEN <<>>
    ELSE (IF ~empty(fc[k]) /\ shouldSend(fc[k], h, path, secure, now)
          THEN <<k>> ELSE <<>>)
         \o FlatRetrieveFrom(fc, k + 1, h, path, secure, now)

FlatRetrieve(fc, h, path, secure, now) ==
    FlatRetrieveFrom(fc, 1, h, path, secure, now)

\* the loop of RemoveExpired from position k on: [fc, removed]
RECURSIVE RemoveExpiredFrom(_, _, _, _)
RemoveExpiredFrom(fc, now, k, removed) ==
    IF k > Len(fc) THEN [fc |-> fc, removed |-> removed]
    ELSE IF IsExpired(fc[k], now)
         THEN RemoveExpiredFrom(FlatRemove(fc, k), now, k + 1, removed + 1)
         ELSE RemoveExpiredFrom(fc, now, k + 1, removed)

FlatRemoveExpired(fc, now) == RemoveExpiredFrom(fc, now, 1, 0)

\* FlatStorage.Empty at wall-clock time now
FlatEmpty(fc, now) == \A k \in 1..Len(fc) : IsExpired(fc[k], now)

\* cleanupPerDomain: "TODO: might require code..."
cleanupPerDomain(fc, max) == [fc |-> fc, removed |-> 0]

\* lu.insert for every cookie of fc from position k on; data is the pointer
RECURSIVE InsertAll(_, _, _)
InsertAll(lu, fc, k) ==
    IF k > Len(fc) THEN lu
    ELSE InsertAll(insert(lu, fc[k], k), fc, k + 1)

\* f.remove(f.index(cookie)) for every heap item from position k on; ptrs[j]
\* is the pointer (original position) now stored at position j
RECURSIVE RemoveByPointer(_, _, _)
RemoveByPointer(ptrs, items, k) ==
    IF k > Len(items) THEN ptrs
    ELSE LET at == CHOOSE j \in 1..Len(ptrs) : ptrs[j] = items[k].data
         IN  RemoveByPointer(FlatRemove(ptrs, at), items, k + 1)

\* a Cleanup that only removes what has expired: with it TotalCap fails
FlatCleanupSweep(fc, total, perDomain, now) == FlatRemoveExpired(fc, now)

\* FlatStorage.Cleanup: [fc, removed]
FlatCleanup(fc, total, perDomain, now) ==
    LET Evict(cur, removed, ptrs) ==
            [fc |-> [j \in 1..Len(ptrs) |-> cur[ptrs[j]]],
             removed |-> removed + (Len(cur) - total)]
        Total(cur, removed) ==
            IF total > 0 /\ Len(cur) > total
            THEN Evict(cur, removed,
                       RemoveByPointer(
                           [j \in 1..Len(cur) |-> j],
                           elements(InsertAll(newLeastUsed(Len(cur) - total),
                                              cur, 1)),
                           1))
            ELSE [fc |-> cur, removed |-> removed]
        PerDomain(perD, removed) == Total(perD.fc, removed + perD.removed)
        Swept(swept) ==
            PerDomain(IF perDomain > 0 THEN cleanupPerDomain(swept.fc, perDomain)
                      ELSE [fc |-> swept.fc, removed |-> 0],
                      swept.removed)
    IN  Swept(FlatRemoveExpired(fc, now))

\* FlatStorage.All: [fc, all]
FlatAll(fc, now) ==
    LET swept == FlatRemoveExpired(fc, now)
    IN  [fc |-> swept.fc, all |-> swept.fc]

(***************************************************************************)
(* The public-suffix table.  It is generated data (table.go); the model    *)
(* carries an excerpt in the two compiled forms the package reads:         *)
(*     com    uk    co.uk    jp    *.kyoto.jp    !pref.kyoto.jp            *)
(***************************************************************************)
\* psStorage: split and reversed rules, sorted by TLD
publicsuffixRules ==
    << <<"com">>,
       <<"jp">>,
       <<"jp", "kyoto", "!pref">>,
       <<"jp", "kyoto", "*">>,
       <<"uk">>,
       <<"uk", "co">> >>

\* TLD -> rules sorted in precedence; kind 0: normal, 1: exception, 2: wildcard
domainRulesTLDs == {"com", "jp", "uk"}

domainRules(tld) ==
    CASE tld = "com" -> << [rule |-> "", kind |-> 0, nil |-> FALSE] >>
      [] tld = "jp"  -> << [rule |-> "pref.kyoto", kind |-> 1, nil |-> FALSE],
                           [rule |-> "kyoto", kind |-> 2, nil |-> FALSE],
                           [rule |-> "", kind |-> 0, nil |-> FALSE] >>
      [] tld = "uk"  -> << [rule |-> "co", kind |-> 0, nil |-> FALSE],
                           [rule |-> "", kind |-> 0, nil |-> FALSE] >>
      [] OTHER -> << >>

(***************************************************************************)
(* psStorage.info and its helpers: the decision domainAndType asks for.    *)
(***************************************************************************)
Alphabet == "!*-.0123456789abcdefghijklmnopqrstuvwxyz"

\* byte order of the characters that occur in host names and rules
Ord(c) ==
    IF \E i \in 1..Len(Alphabet) : At(Alphabet, i) = c
    THEN CHOOSE i \in 1..Len(Alphabet) : At(Alphabet, i) = c
    ELSE 0

\* Go's a < b on strings
RECURSIVE StrLess(_, _)
StrLess(a, b) ==
    IF Len(b) = 0 THEN FALSE
    ELSE IF Len(a) = 0 THEN TRUE
    ELSE IF Ord(At(a, 1)) # Ord(At(b, 1)) THEN Ord(At(a, 1)) < Ord(At(b, 1))
    ELSE StrLess(SubSeq(a, 2, Len(a)), SubSeq(b, 2, Len(b)))

\* "www.example.com" --> <<"com", "example", "www">>
splitAndReverse(domain) ==
    LET forward == Split(domain)
        n == Len(forward)
    IN  [i \in 1..n |-> forward[n + 1 - i]]

\* first loop of tldIndex: [startIdx, endIdx, m]
RECURSIVE tldIndexFind(_, _, _, _, _)
tldIndexFind(ps, tld, startIdx, endIdx, m) ==
    LET Step(s2, e2) ==
            IF e2 - s2 < 4 THEN [startIdx |-> s2, endIdx |-> e2, m |-> m]
            ELSE tldIndexFind(ps, tld, s2, e2, (s2 + e2) \div 2)
    IN  IF ps[m + 1][1] = tld
        THEN [startIdx |-> startIdx, endIdx |-> endIdx, m |-> m]
        ELSE Step(IF StrLess(ps[m + 1][1], tld) THEN m ELSE startIdx,
                  IF StrLess(ps[m + 1][1], tld) THEN endIdx ELSE m)

\* second loop of tldIndex: the better start index
RECURSIVE tldIndexStart(_, _, _, _)
tldIndexStart(ps, tld, startIdx, x) ==
    LET mm == (startIdx + x) \div 2
    IN  IF x - startIdx < 8 THEN startIdx
        ELSE IF StrLess(ps[mm + 1][1], tld)
             THEN tldIndexStart(ps, tld, mm, x)
             ELSE tldIndexStart(ps, tld, startIdx, mm)

\* third loop of tldIndex: the better end index
RECURSIVE tldIndexEnd(_, _, _, _)
tldIndexEnd(ps, tld, endIdx, x) ==
    LET mm == (endIdx + x) \div 2
    IN  IF endIdx - x < 8 THEN endIdx
        ELSE IF StrLess(tld, ps[mm + 1][1])
             THEN tldIndexEnd(ps, tld, mm, x)
             ELSE tldIndexEnd(ps, tld, endIdx, mm)

\* psStorage.tldIndex (Go indices)
tldIndex(ps, tld) ==
    LET Ends(f) == [startIdx |-> tldIndexStart(ps, tld, f.startIdx, f.m),
                    endIdx |-> tldIndexEnd(ps, tld, f.endIdx, f.m)]
    IN  IF StrLess(tld, ps[1][1]) \/ StrLess(ps[Len(ps)][1], tld)
        THEN [startIdx |-> 0, endIdx |-> 0]
        ELSE Ends(tldIndexFind(ps, tld, 0, Len(ps) - 1, (Len(ps) - 1) \div 2))

\* psStorage.ruleMatch on a split and reversed rule and domain
ruleMatch(rule, domain) ==
    \A i \in 1..Len(rule) :
        /\ i <= Len(domain)
        /\ LET label == IF At(rule[i], 1) = "!"
                        THEN SubSeq(rule[i], 2, Len(rule[i])) ELSE rule[i]
           IN  label = domain[i] \/ label = "*"

\* the loop of psStorage.rule over ps[i..endIdx]: acc is
\* [rule, numLabels, exceptionRule, hasException]
RECURSIVE ruleScan(_, _, _, _, _)
ruleScan(ps, domainRev, i, endIdx, acc) ==
    IF i > endIdx THEN acc
    ELSE LET r == ps[i + 1]
             acc2 ==
                 IF ~ruleMatch(r, domainRev) THEN acc
                 ELSE IF At(r[Len(r)], 1) = "!"
                 THEN [acc EXCEPT !.exceptionRule = SubSeq(r, 1, Len(r) - 1),
                                  !.hasException = TRUE]
                 ELSE IF Len(r) > acc.numLabels
                 THEN [acc EXCEPT !.rule = r, !.numLabels = Len(r)]
                 ELSE acc
         IN  ruleScan(ps, domainRev, i + 1, endIdx, acc2)

\* psStorage.rule.  The rule is first looked up in, and afterwards stored
\* into, a memo keyed by the domain; the memo of a domain holds what this
\* scan computes for it.
rule(ps, domain) ==
    LET Pick(acc) == IF acc.hasException THEN acc.exceptionRule ELSE acc.rule
        Scan(domainRev, range) ==
            Pick(ruleScan(ps, domainRev, range.startIdx, range.endIdx,
                          [rule |-> <<>>, numLabels |-> 0,
                           exceptionRule |-> <<>>, hasException |-> FALSE]))
        Rev(domainRev) == Scan(domainRev, tldIndex(ps, domainRev[1]))
    IN  Rev(splitAndReverse(domain))

\* psStorage.info: [covered, allow, etdl]
info(ps, domain) ==
    LET Decide(domainRev, r) ==
            IF Len(r) = 0
            THEN [covered |-> FALSE, allow |-> FALSE,
                  etdl |-> IF Len(domainRev) > 1
                           THEN domainRev[2] \o "." \o domainRev[1]
                           ELSE domainRev[1]]
            ELSE [covered |-> TRUE, allow |-> Len(r) < Len(domainRev),
                  etdl |-> IF Len(r) < Len(domainRev)
                           THEN Join([i \in 1..(Len(r) + 1) |->
                                         domainRev[Len(r) + 2 - i]])
                           ELSE domain]
    IN  Decide(splitAndReverse(ToLower(domain)), rule(ps, domain))

(***************************************************************************)
(* publicsuffixes.go: domainRule, the rule cache, findDomainRule,          *)
(* effectiveTldPlusOne and allowCookiesOn.                                 *)
(***************************************************************************)
RuleCacheSize == 40

\* a nil *domainRule
NilRule == [rule |-> "", kind |-> 0, nil |-> TRUE]

\* domainRule.match on the domain without its TLD
match(r, domain) ==
    IF ~HasSuffix(domain, r.rule) THEN FALSE
    ELSE IF Len(domain) = Len(r.rule) THEN TRUE
    ELSE IF Len(r.rule) = 0 \/ At(domain, Len(domain) - Len(r.rule)) = "."
    THEN TRUE
    ELSE FALSE

\* ruleCache{cache: make([]cacheEntry, size), idx: 0}
NewRuleCache(size) ==
    [cache |-> [i \in 1..size |-> [domain |-> "", rule |-> NilRule]],
     idx |-> 0, cap |-> size]

\* a lookup that takes the first entry whatever its domain; with it
\* CacheTransparent fails
lookupFirst(rc, domain) ==
    IF Len(rc.cache) = 0 \/ rc.cache[1].domain = ""
    THEN [rule |-> NilRule, found |-> FALSE]
    ELSE [rule |-> rc.cache[1].rule, found |-> TRUE]

\* ruleCache.lookup: [rule, found]
lookup(rc, domain) ==
    LET hits == {i \in 1..Len(rc.cache) : rc.cache[i].domain = domain}
    IN  IF hits = {} THEN [rule |-> NilRule, found |-> FALSE]
        ELSE [rule |-> rc.cache[CHOOSE i \in hits : \A j \in hits : i <= j].rule,
              found |-> TRUE]

\* a store that appends every entry; with it RingReplacement fails
storeAppend(rc, domain, r) ==
    [rc EXCEPT !.cache = Append(@, [domain |-> domain, rule |-> r])]

\* ruleCache.store
store(rc, domain, r) ==
    LET entry == [domain |-> domain, rule |-> r]
        filled == IF rc.idx = Len(rc.cache) THEN Append(rc.cache, entry)
                  ELSE [rc.cache EXCEPT ![rc.idx + 1] = entry]
        cap2 == IF Len(filled) > rc.cap THEN Len(filled) ELSE rc.cap
        idx2 == rc.idx + 1
    IN  [cache |-> filled, idx |-> IF idx2 = cap2 THEN 0 ELSE idx2,
         cap |-> cap2]

\* the first rule of rules that matches, or nil
RECURSIVE firstMatch(_, _, _)
firstMatch(rules, strippedDomain, i) ==
    IF i > Len(rules) THEN NilRule
    ELSE IF match(rules[i], strippedDomain) THEN rules[i]
    ELSE firstMatch(rules, strippedDomain, i + 1)

\* findDomainRule: [rule, rc: the rule cache afterwards]
findDomainRule(rc, domain) ==
    LET Search(cached, tld, found) ==
            IF cached.found THEN [rule |-> cached.rule, rc |-> rc]
            ELSE IF tld \notin domainRulesTLDs
            THEN [rule |-> NilRule, rc |-> rc]
            ELSE [rule |-> found, rc |-> store(rc, domain, found)]
        Cut(i) ==
            Search(lookup(rc, domain),
                   IF i # -1 THEN SubSeq(domain, i + 2, Len(domain)) ELSE domain,
                   firstMatch(domainRules(IF i # -1
                                          THEN SubSeq(domain, i + 2, Len(domain))
                                          ELSE domain),
                              IF i # -1 THEN SubSeq(domain, 1, i) ELSE "", 1))
    IN  Cut(LastIndex(domain, "."))

\* effectiveTldPlusOne that takes every rule for a normal one; with it
\* EtldLabelCount fails
effectiveTldPlusOneNormal(rc, domain) ==
    LET Cut(labels, n, rc2) ==
            [etldp1 |-> Join(SubSeq(labels,
                                    IF n > Len(labels) THEN 1
                                    ELSE Len(labels) - n + 1,
                                    Len(labels))),
             tooShort |-> n > Len(labels), rc |-> rc2]
        Found(fr) ==
            Cut(Split(domain),
                IF fr.rule.nil \/ fr.rule.rule = "" THEN 2
                ELSE Count(fr.rule.rule, ".") + 3,
                fr.rc)
    IN  Found(findDomainRule(rc, domain))

\* effectiveTldPlusOne: [etldp1, tooShort, rc]
effectiveTldPlusOne(rc, domain) ==
    LET base(r) == IF r.rule = "" THEN 2 ELSE Count(r.rule, ".") + 3
        Cut(labels, n, rc2) ==
            [etldp1 |-> Join(SubSeq(labels,
                                    IF n > Len(labels) THEN 1
                                    ELSE Len(labels) - n + 1,
                                    Len(labels))),
             tooShort |-> n > Len(labels), rc |-> rc2]
        With(r, rc2) ==
            Cut(Split(domain),
                IF r.nil THEN 2
                ELSE IF r.kind = 1 THEN base(r) - 1
                ELSE IF r.kind = 2 THEN base(r) + 1
                ELSE base(r),
                rc2)
        Found(fr) == With(fr.rule, fr.rc)
    IN  Found(findDomainRule(rc, domain))

\* allowCookiesOn: [allow, rc]
allowCookiesOn(rc, domain) ==
    LET Allow(e) == [allow |-> ~e.tooShort, rc |-> e.rc]
    IN  Allow(effectiveTldPlusOne(rc, domain))

(***************************************************************************)
(* The state.                                                              *)
(***************************************************************************)
VARIABLES
    jar,            \* the Jar: its configuration fields, total and empty
    storage,        \* jar.Storage: a FlatStorage or a FancyStorage
    theRuleCache,   \* the rule cache of findDomainRule
    clock,          \* the last value time.Now() returned
    last,           \* the last call on the jar and what it returned
    goroutines      \* the calls started with go: where each stands

vars == <<jar, storage, theRuleCache, clock, last, goroutines>>

(***************************************************************************)
(* FancyStorage (bst.go).  s is the storage record                         *)
(*   [kind, tldPlusOne, MaxCookies, cookies, flat]                         *)
(* where cookies is FlatStorage.cookies (kind "flat") and flat is          *)
(* FancyStorage.flat, a function from domain keys to the f.cookies of the  *)
(* bucket (kind "fancy").  A *Cookie is a record [key, idx].               *)
(***************************************************************************)
NewFlatStorage ==
    [kind |-> "flat", tldPlusOne |-> FALSE, MaxCookies |-> 0,
     cookies |-> <<>>, flat |-> <<>>]

NewFancyStorage(tldPlusOne) ==
    [kind |-> "fancy", tldPlusOne |-> tldPlusOne, MaxCookies |-> 0,
     cookies |-> <<>>, flat |-> <<>>]

Put(f, k, v) == [x \in (DOMAIN f) \cup {k} |-> IF x = k THEN v ELSE f[x]]

Drop(f, ks) == [x \in (DOMAIN f) \ ks |-> f[x]]

\* the dots the TLD+1 loop of key sees: Go's n runs from len-2 down to 1
TldDots(domain) == {p \in 2..(Len(domain) - 1) : At(domain, p) = "."}

\* FancyStorage.key: [key, rc]
key(s, rc, domain) ==
    LET Second2(dots, first) ==
            CHOOSE p \in dots \ {first} : \A q \in dots \ {first} : q <= p
        Dots(dots) ==
            IF Cardinality(dots) >= 2
            THEN SubSeq(domain,
                        Second2(dots, CHOOSE p \in dots : \A q \in dots : q <= p)
                            + 1,
                        Len(domain))
            ELSE domain
        Of(e) == [key |-> e.etldp1, rc |-> e.rc]
    IN  IF s.tldPlusOne
        THEN [key |-> Dots(TldDots(domain)), rc |-> rc]
        ELSE Of(effectiveTldPlusOne(rc, domain))

\* Storage.Find: [s, rc, loc, panic]
Find(s, rc, domain, path, name, now) ==
    LET Flat(r) == [s |-> [s EXCEPT !.cookies = r.fc], rc |-> rc,
                    loc |-> [key |-> "", idx |-> r.idx], panic |-> r.panic]
        Fancy(k, r) ==
            [s |-> [s EXCEPT !.flat = Put(s.flat, k.key, r.fc)], rc |-> k.rc,
             loc |-> [key |-> k.key, idx |-> r.idx], panic |-> r.panic]
        In(k) == Fancy(k, FlatFind(IF k.key \in DOMAIN s.flat
                                   THEN s.flat[k.key] ELSE <<>>,
                                   s.MaxCookies, domain, path, name, now))
    IN  IF s.kind = "flat"
        THEN Flat(FlatFind(s.cookies, s.MaxCookies, domain, path, name, now))
        ELSE In(key(s, rc, domain))

\* Storage.Delete: [s, rc, ok]
Delete(s, rc, domain, path, name) ==
    LET Flat(r) == [s |-> [s EXCEPT !.cookies = r.fc], rc |-> rc, ok |-> r.ok]
        Fancy(k, r) == [s |-> [s EXCEPT !.flat[k.key] = r.fc], rc |-> k.rc,
                        ok |-> r.ok]
        In(k) == IF k.key \in DOMAIN s.flat
                 THEN Fancy(k, FlatDelete(s.flat[k.key], domain, path, name))
                 ELSE [s |-> s, rc |-> k.rc, ok |-> FALSE]
    IN  IF s.kind = "flat"
        THEN Flat(FlatDelete(s.cookies, domain, path, name))
        ELSE In(key(s, rc, domain))

\* Storage.Retrieve: [sel: the selected *Cookie in scan order, rc]
Retrieve(s, rc, h, path, secure, now) ==
    LET Sel(k, r, c) == [sel |-> [i \in 1..Len(r) |-> [key |-> k, idx |-> r[i]]],
                         rc |-> c]
        In(k) == IF k.key \in DOMAIN s.flat
                 THEN Sel(k.key,
                          FlatRetrieve(s.flat[k.key], h, path, secure, now),
                          k.rc)
                 ELSE [sel |-> <<>>, rc |-> k.rc]
    IN  IF s.kind = "flat"
        THEN Sel("", FlatRetrieve(s.cookies, h, path, secure, now), rc)
        ELSE In(key(s, rc, h))

\* the cookie a *Cookie points to, and the assignment through the pointer
Deref(s, loc) ==
    IF s.kind = "flat" THEN s.cookies[loc.idx] ELSE s.flat[loc.key][loc.idx]

Assign(s, loc, c) ==
    IF s.kind = "flat" THEN [s EXCEPT !.cookies[loc.idx] = c]
    ELSE [s EXCEPT !.flat[loc.key][loc.idx] = c]

\* every sequence that lists the elements of the finite set S once
RECURSIVE Orders(_)
Orders(S) ==
    IF S = {} THEN {<<>>}
    ELSE UNION {{<<x>> \o o : o \in Orders(S \ {x})} : x \in S}

\* second loop of FancyStorage.Cleanup: insert the cookies of flat[k] from
\* position i on
RECURSIVE FancyInsertBucket(_, _, _, _)
FancyInsertBucket(lu, fc, k, i) ==
    IF i > Len(fc) THEN lu
    ELSE FancyInsertBucket(insert(lu, fc[i], [key |-> k, idx |-> i]),
                           fc, k, i + 1)

\* ... for the buckets in the order the map iteration produced
RECURSIVE FancyInsertAll(_, _, _, _)
FancyInsertAll(lu, flat, order, j) ==
    IF j > Len(order) THEN lu
    ELSE FancyInsertAll(FancyInsertBucket(lu, flat[order[j]], order[j], 1),
                        flat, order, j + 1)

\* third loop of FancyStorage.Cleanup: f.flat[loc.key].remove(loc.idx)
RECURSIVE FancyRemoveAll(_, _, _)
FancyRemoveAll(flat, items, j) ==
    IF j > Len(items) THEN flat
    ELSE LET loc == items[j].data
         IN  FancyRemoveAll(
                 [flat EXCEPT ![loc.key] = FlatRemove(flat[loc.key], loc.idx)],
                 items, j + 1)

Sum(f) ==
    LET RECURSIVE SumOver(_)
        SumOver(D) == IF D = {} THEN 0
                      ELSE LET x == CHOOSE x \in D : TRUE
                           IN  f[x] + SumOver(D \ {x})
    IN  SumOver(DOMAIN f)

\* first loop of FancyStorage.Cleanup: every bucket cleaned, te[k] is what
\* time.Now() returns in the Empty() of bucket k
FancyCleanBuckets(flat, perDomain, now) ==
    [k \in DOMAIN flat |-> FlatCleanup(flat[k], perDomain, 0, now)]

FancyKept(flat, cleaned, te) ==
    {k \in DOMAIN flat : ~FlatEmpty(cleaned[k].fc, te[k])}

\* FancyStorage.Cleanup: [flat, removed]; order is the order in which the
\* second range over the map visits the buckets that are left
FancyCleanup(flat, total, perDomain, now, te, order) ==
    LET Evict(flat1, removed, del) ==
            IF total <= 0 \/ del <= 0
            THEN [flat |-> flat1, removed |-> removed]
            ELSE [flat |-> FancyRemoveAll(
                               flat1,
                               elements(FancyInsertAll(newLeastUsed(del),
                                                       flat1, order, 1)),
                               1),
                  removed |-> removed]
        Tally(flat1, removed) ==
            Evict(flat1, removed,
                  Sum([k \in DOMAIN flat1 |-> Len(flat1[k])]) - total)
        Keep(cleaned) ==
            Tally([k \in FancyKept(flat, cleaned, te) |-> cleaned[k].fc],
                  Sum([k \in DOMAIN flat |-> cleaned[k].removed]))
    IN  Keep(FancyCleanBuckets(flat, perDomain, now))

\* Storage.Cleanup: [s, removed]
Cleanup(s, total, perDomain, now, te, order) ==
    LET Flat(r) == [s |-> [s EXCEPT !.cookies = r.fc], removed |-> r.removed]
        Fancy(r) == [s |-> [s EXCEPT !.flat = r.flat], removed |-> r.removed]
    IN  IF s.kind = "flat"
        THEN Flat(FlatCleanup(s.cookies, total, perDomain, now))
        ELSE Fancy(FancyCleanup(s.flat, total, perDomain, now, te, order))

\* Storage.All: the storage after the sweep (what is left is what is exposed)
All(s, now) ==
    IF s.kind = "flat"
    THEN [s EXCEPT !.cookies = FlatAll(s.cookies, now).fc]
    ELSE [s EXCEPT !.flat = [k \in DOMAIN s.flat |->
                                FlatAll(s.flat[k], now).fc]]

\* every stored record, in one sequence (the buckets in any fixed order)
RECURSIVE Flatten(_, _)
Flatten(flat, ks) ==
    IF ks = {} THEN <<>>
    ELSE LET k == CHOOSE k \in ks : TRUE
         IN  flat[k] \o Flatten(flat, ks \ {k})

Records(s) ==
    IF s.kind = "flat" THEN s.cookies ELSE Flatten(s.flat, DOMAIN s.flat)

(***************************************************************************)
(* Jar (cookie.go).  jar is the record of the Jar's fields; a recieved     *)
(* http.Cookie is a record                                                 *)
(*   [Name, Value, Domain, Path, Expires, MaxAge, Secure, HttpOnly].       *)
(***************************************************************************)
MaxBytesPerCookie == 4096

defaultVal(val, dflt) ==
    IF val = 0 THEN dflt
    ELSE IF val < 0 THEN 2147483647
    ELSE val

\* a limit that already turns away a cookie of just that size; with it
\* OversizeDrop fails
maxBytesPerCookieBelow(j) ==
    defaultVal(j.MaxBytesPerCookie, MaxBytesPerCookie) - 1

maxBytesPerCookie(j) == defaultVal(j.MaxBytesPerCookie, MaxBytesPerCookie)

\* domainAndType that takes the Domain attribute as it comes: with it
\* DomainScope fails
domainAndTypeLoose(j, h, domainAttr) ==
    IF domainAttr = "" THEN [domain |-> h, hostOnly |-> TRUE, err |-> ""]
    ELSE [domain |-> ToLower(domainAttr), hostOnly |-> FALSE, err |-> ""]

\* domainAndType that makes a host cookie of every cookie: with it
\* HostOnlyProvenance fails
domainAndTypeHost(j, h, domainAttr) ==
    [domain |-> h, hostOnly |-> TRUE, err |-> ""]

\* domainAndType: [domain, hostOnly, err]; err = "" is Go's nil
domainAndType(j, h, domainAttr) ==
    LET fail(e) == [domain |-> "", hostOnly |-> FALSE, err |-> e]
        Suffix(domain, ps) ==
            IF ~j.AllowAllDomains /\ ps.covered /\ ~ps.allow
            THEN IF h = domainAttr
                 THEN [domain |-> h, hostOnly |-> TRUE, err |-> ""]
                 ELSE fail("ErrIllegalPSDomain")
            ELSE IF h # domain /\ ~HasSuffix(h, "." \o domain)
            THEN fail("ErrBadDomain")
            ELSE [domain |-> domain, hostOnly |-> FALSE, err |-> ""]
        Domain(domain) ==
            IF Len(domain) = 0 \/ At(domain, 1) = "."
            THEN fail("ErrMalformedDomain")
            ELSE IF Index(domain, ".") = -1
            THEN fail("ErrTLDDomainCookie")
            ELSE Suffix(domain, info(publicsuffixRules, domain))
    IN  IF domainAttr = ""
        THEN [domain |-> h, hostOnly |-> TRUE, err |-> ""]
        ELSE IF isIP(h)
        THEN IF j.LaxMode /\ domainAttr = h
             THEN [domain |-> h, hostOnly |-> TRUE, err |-> ""]
             ELSE fail("ErrNoHostname")
        ELSE Domain(ToLower(IF At(domainAttr, 1) = "."
                            THEN SubSeq(domainAttr, 2, Len(domainAttr))
                            ELSE domainAttr))

\* a deletion test that lets a past Expires win over a positive MaxAge:
\* with it DeleteOrStore fails
deleteRequestByExpires(recieved, now) ==
    \/ recieved.MaxAge < 0
    \/ recieved.Expires # 0 /\ recieved.Expires < now

\* update, "check for deletion of cookie": MaxAge takes precedence over
\* Expires
deleteRequest(recieved, now) ==
    \/ recieved.MaxAge < 0
    \/ /\ recieved.MaxAge = 0
       /\ recieved.Expires # 0
       /\ recieved.Expires < now

\* update, "... and determine expiration time"
expiration(recieved, now) ==
    IF recieved.MaxAge > 0 THEN now + recieved.MaxAge * Second
    ELSE recieved.Expires

\* update: [s, rc, action, before, cookie, panic]; before is the record Find
\* returned and cookie the record as update left it (ZeroCookie when no
\* record was written)
\* an update that starts the cookie anew, as a creation does; with it
\* UpdateFrame fails
updatedAnew(cookie, hostOnly, recieved, now) ==
    [cookie EXCEPT !.HostOnly = hostOnly,
                   !.Value = recieved.Value,
                   !.HttpOnly = recieved.HttpOnly,
                   !.Expires = expiration(recieved, now),
                   !.Secure = recieved.Secure,
                   !.Created = now,
                   !.LastAccess = now]

\* the cookie found in the storage after update has written the recieved
\* one into it
updated(cookie, hostOnly, recieved, now) ==
    [cookie EXCEPT !.HostOnly = hostOnly,
                   !.Value = recieved.Value,
                   !.HttpOnly = recieved.HttpOnly,
                   !.Expires = expiration(recieved, now),
                   !.Secure = recieved.Secure,
                   !.LastAccess = now]

update(j, s, rc, h, defaultpath, now, recieved) ==
    LET path == IF recieved.Path = "" \/ At(recieved.Path, 1) # "/"
                THEN defaultpath ELSE recieved.Path
        none(st, c, a, p) == [s |-> st, rc |-> c, action |-> a,
                              before |-> ZeroCookie, cookie |-> ZeroCookie,
                              panic |-> p]
        Done(st, c, a, found, cookie) ==
            [s |-> Assign(st, found.loc, cookie), rc |-> c, action |-> a,
             before |-> found.cookie, cookie |-> cookie, panic |-> FALSE]
        Store(dt, fd, cookie) ==
            IF Len(cookie.Name) = 0
            THEN Done(fd.s, fd.rc, "createCookie",
                      [loc |-> fd.loc, cookie |-> cookie],
                      [Name |-> recieved.Name, Value |-> recieved.Value,
                       Domain |-> dt.domain, Path |-> path,
                       Expires |-> expiration(recieved, now),
                       Secure |-> recieved.Secure,
                       HostOnly |-> dt.hostOnly,
                       HttpOnly |-> recieved.HttpOnly, Created |-> now,
                       LastAccess |-> now])
            ELSE Done(fd.s, fd.rc, "updateCookie",
                      [loc |-> fd.loc, cookie |-> cookie],
                      updated(cookie, dt.hostOnly, recieved, now))
        Found(dt, fd) ==
            IF fd.panic THEN none(fd.s, fd.rc, "invalidCookie", TRUE)
            ELSE Store(dt, fd, Deref(fd.s, fd.loc))
        Deleted(del) == none(del.s, del.rc, "deleteCookie", FALSE)
        Typed(dt) ==
            IF dt.err # "" THEN none(s, rc, "invalidCookie", FALSE)
            ELSE IF deleteRequest(recieved, now)
            THEN Deleted(Delete(s, rc, dt.domain, path, recieved.Name))
            ELSE Found(dt, Find(s, rc, dt.domain, path, recieved.Name, now))
    IN  Typed(domainAndType(j, h, recieved.Domain))

\* the loop of SetCookies from cookie i on; r is [jar, s, rc, now, acts, panic]
RECURSIVE SetCookiesLoop(_, _, _, _, _)
SetCookiesLoop(r, h, defaultpath, cookies, i) ==
    LET Count2(up, j) ==
            SetCookiesLoop(
                [jar |-> IF up.panic THEN r.jar ELSE j,
                 s |-> up.s, rc |-> up.rc,
                 now |-> IF up.panic THEN r.now ELSE r.now + 1,
                 acts |-> Append(r.acts, [action |-> up.action,
                                          before |-> up.before,
                                          cookie |-> up.cookie]),
                 panic |-> up.panic],
                h, defaultpath, cookies, i + 1)
        Updated(up) ==
            Count2(up, IF up.action = "createCookie"
                       THEN [r.jar EXCEPT !.total = @ + 1]
                       ELSE IF up.action = "deleteCookie"
                       THEN [r.jar EXCEPT !.empty = @ + 1]
                       ELSE r.jar)
    IN  IF i > Len(cookies) \/ r.panic THEN r
        ELSE IF Len(cookies[i].Name) + Len(cookies[i].Value)
                    > maxBytesPerCookie(r.jar)
        THEN SetCookiesLoop(
                 [r EXCEPT !.acts = Append(@, [action |-> "continue",
                                               before |-> ZeroCookie,
                                               cookie |-> ZeroCookie])],
                 h, defaultpath, cookies, i + 1)
        ELSE Updated(update(r.jar, r.s, r.rc, h, defaultpath, r.now,
                            cookies[i]))

\* sort.Sort(sendList(cookies)): it is not stable, so any order of the
\* selection in which no later cookie is Less than an earlier one
Sorted(s, sel) ==
    {p \in Orders(1..Len(sel)) :
        \A a, b \in 1..Len(sel) :
            a < b => ~sendListLess(Deref(s, sel[p[b]]), Deref(s, sel[p[a]]))}

\* the last loop of Cookies with one timestamp for all cookies: with it
\* DistinctTicks fails
RECURSIVE TouchAtOnce(_, _, _, _, _)
TouchAtOnce(s, sel, p, now, i) ==
    IF i > Len(p) THEN s
    ELSE TouchAtOnce(Assign(s, sel[p[i]],
                            [Deref(s, sel[p[i]]) EXCEPT !.LastAccess = now]),
                     sel, p, now, i + 1)

\* the last loop of Cookies writing Created as well: with it CookiesFrame
\* fails
RECURSIVE TouchCreated(_, _, _, _, _)
TouchCreated(s, sel, p, now, i) ==
    IF i > Len(p) THEN s
    ELSE TouchCreated(Assign(s, sel[p[i]],
                             [Deref(s, sel[p[i]]) EXCEPT !.LastAccess = now,
                                                         !.Created = now]),
                      sel, p, now + 1, i + 1)

\* the last loop of Cookies: cookie.LastAccess = now, now advanced by one
RECURSIVE Touch(_, _, _, _, _)
Touch(s, sel, p, now, i) ==
    IF i > Len(p) THEN s
    ELSE Touch(Assign(s, sel[p[i]],
                      [Deref(s, sel[p[i]]) EXCEPT !.LastAccess = now]),
               sel, p, now + 1, i + 1)

(***************************************************************************)
(* The operations of the Jar as actions.  time.Now() returns a value that  *)
(* is not before the last one returned; Latest is the latest value it can  *)
(* return during the call that is running.                                 *)
(***************************************************************************)
Latest == IF clock + MaxAdvance > MaxClock THEN MaxClock ELSE clock + MaxAdvance

Max(S) == CHOOSE x \in S : \A y \in S : y <= x

Buckets(s) == IF s.kind = "flat" THEN {} ELSE DOMAIN s.flat

\* the orders in which the second range of FancyStorage.Cleanup can visit
\* the map; the order is of no consequence when nothing is evicted
CleanupOrders(s, total, perDomain, now, te) ==
    LET Pick(kept, cnt) ==
            IF total <= 0 \/ cnt <= total
            THEN {CHOOSE o \in Orders(kept) : TRUE}
            ELSE Orders(kept)
        Kept(cleaned, kept) ==
            Pick(kept, Sum([k \in kept |-> Len(cleaned[k].fc)]))
        Keep(cleaned) == Kept(cleaned, FancyKept(s.flat, cleaned, te))
    IN  IF s.kind = "flat" THEN {<<>>}
        ELSE Keep(FancyCleanBuckets(s.flat, perDomain, now))

Call(op, u, cookies, now, access, ret, acts, panic) ==
    [op |-> op, u |-> u, cookies |-> cookies, now |-> now, access |-> access,
     ret |-> ret, acts |-> acts, panic |-> panic]

\* Jar.SetCookies(u, cookies), called while jar.total has not passed created
\* and jar.empty has not passed deleted
SetCookiesWithin(u, cookies, created, deleted) ==
    LET Return(j, s, rc, t, now, acts, panic) ==
            /\ jar' = j
            /\ storage' = s
            /\ theRuleCache' = rc
            /\ clock' = t
            /\ last' = Call("SetCookies", u, cookies, now, 0, <<>>, acts, panic)
            /\ UNCHANGED goroutines
        Looped(now, r) ==
            /\ r.jar.total <= created
            /\ r.jar.empty <= deleted
            /\ IF r.panic
               THEN Return(r.jar, r.s, r.rc, now, now, r.acts, TRUE)
               ELSE \E te \in [Buckets(r.s) -> now..Latest] :
                      \E order \in CleanupOrders(r.s, jar.MaxCookiesTotal,
                                      jar.MaxCookiesPerDomain, r.now, te) :
                        Return(r.jar,
                               Cleanup(r.s, jar.MaxCookiesTotal,
                                       jar.MaxCookiesPerDomain, r.now, te,
                                       order).s,
                               r.rc,
                               Max({now} \cup {te[k] : k \in DOMAIN te}),
                               now, r.acts, FALSE)
        SetCookiesOn(h) ==
            IF ~isHTTP(u) \/ h.err
            THEN /\ UNCHANGED <<jar, storage, theRuleCache, clock, goroutines>>
                 /\ last' = Call("SetCookies", u, cookies, 0, 0, <<>>, <<>>,
                                 FALSE)
            ELSE \E now \in clock..Latest :
                   Looped(now,
                          SetCookiesLoop(
                              [jar |-> jar, s |-> storage,
                               rc |-> theRuleCache, now |-> now,
                               acts |-> <<>>, panic |-> FALSE],
                              h.host, defaultPath(u), cookies, 1))
    IN  SetCookiesOn(host(u))

\* Jar.SetCookies(u, cookies)
SetCookies(u, cookies) == SetCookiesWithin(u, cookies, MaxCreated, MaxDeleted)

\* Jar.Cookies(u); what is recorded as returned are the stored records behind
\* the http.Cookies, as they were when they were selected
Cookies(u) ==
    LET Send(t, now, rt) ==
            \E p \in Sorted(storage, rt.sel) :
              /\ storage' = Touch(storage, rt.sel, p, now, 1)
              /\ theRuleCache' = rt.rc
              /\ clock' = now
              /\ last' = Call("Cookies", u, <<>>, t, now,
                              [i \in 1..Len(p) |-> Deref(storage, rt.sel[p[i]])],
                              <<>>, FALSE)
              /\ UNCHANGED <<jar, goroutines>>
        CookiesOn(h) ==
            IF ~isHTTP(u) \/ h.err
            THEN /\ UNCHANGED <<jar, storage, theRuleCache, clock, goroutines>>
                 /\ last' = Call("Cookies", u, <<>>, 0, 0, <<>>, <<>>, FALSE)
            ELSE \E t \in clock..Latest : \E now \in t..Latest :
                   Send(t, now,
                        Retrieve(storage, theRuleCache, h.host,
                                 IF u.Path = "" THEN "/" ELSE u.Path,
                                 isSecure(u), t))
    IN  CookiesOn(host(u))

\* Jar.All(now), called with what time.Now() returned
JarAll ==
    LET Return(now, s) ==
            /\ storage' = s
            /\ clock' = now
            /\ last' = Call("All", URL("", "", ""), <<>>, now, 0, Records(s),
                            <<>>, FALSE)
            /\ UNCHANGED <<jar, theRuleCache, goroutines>>
    IN  \E now \in clock..Latest : Return(now, All(storage, now))

\* a Jar with the given fields, and the storage it was given, before any call;
\* start is what time.Now() returns when the Jar is made
NewJar(perDomain, total, bytes, lax, all, s, start) ==
    /\ jar = [MaxCookiesPerDomain |-> perDomain, MaxCookiesTotal |-> total,
              MaxBytesPerCookie |-> bytes, LaxMode |-> lax,
              AllowAllDomains |-> all, total |-> 0, empty |-> 0, lock |-> 0]
    /\ storage = s
    /\ theRuleCache = NewRuleCache(RuleCacheSize)
    /\ clock = start
    /\ last = Call("NewJar", URL("", "", ""), <<>>, 0, 0, <<>>, <<>>, FALSE)
    /\ goroutines = <<>>

\* the batches of at most MaxBatch cookies out of R
Batches(R) == UNION {[1..n -> R] : n \in 0..MaxBatch}

Recv(name, value, domain, path, expires, maxAge, secure) ==
    [Name |-> name, Value |-> value, Domain |-> domain, Path |-> path,
     Expires |-> expires, MaxAge |-> maxAge, Secure |-> secure,
     HttpOnly |-> FALSE]

Storages == {NewFlatStorage, NewFancyStorage(TRUE), NewFancyStorage(FALSE)}

\* no cookie, or one cookie out of R
Singles(R) == {<<>>} \cup {<<c>> : c \in R}

\* the calls a client makes with URLs out of U and batches out of B
Next(U, B) ==
    \/ \E u \in U, cookies \in B : SetCookies(u, cookies)
    \/ \E u \in U : Cookies(u)
    \/ JarAll

(***************************************************************************)
(* Capped jars: two hosts in two domains set session cookies of two names. *)
(***************************************************************************)
CapURLs == {URL("http", "a.com", "/"), URL("http", "b.com", "/")}

CapRecv == {Recv(n, "v", "", "", 0, 0, FALSE) : n \in {"n", "m"}}

SpecCaps ==
    /\ \E s \in Storages, cap \in {<<1, 0>>, <<2, 1>>} :
          NewJar(cap[2], cap[1], 0, FALSE, FALSE, s, MaxClock - 1)
    /\ [][Next(CapURLs, Batches(CapRecv))]_vars

(***************************************************************************)
(* Expiry and order: one host sets a host cookie and a domain cookie on    *)
(* its default path /p, a domain cookie on / and a host cookie that        *)
(* expires one tick before the clock stops.                                *)
(***************************************************************************)
ExpURLs == {URL("http", "a.com", "/p/q")}

ExpRecv ==
    {Recv("n", "v", "", "", 0, 0, FALSE),
     Recv("m", "v", "a.com", "", 0, 0, FALSE),
     Recv("m", "v", "a.com", "/", 0, 0, FALSE),
     Recv("e", "v", "", "", MaxClock - 1, 0, FALSE)}

SpecExp ==
    /\ \E s \in Storages :
          NewJar(0, 0, 0, FALSE, FALSE, s, MaxClock - 2)
    /\ [][Next(ExpURLs, Singles(ExpRecv))]_vars

(***************************************************************************)
(* Scope: a host, the same host over https, a sub-domain and an ftp URL;   *)
(* a host cookie with and without Secure, and a domain cookie.             *)
(***************************************************************************)
ScopeURLs ==
    {URL("http", "a.com", "/p/q"), URL("https", "a.com", "/p/q"),
     URL("http", "x.a.com", "/p/q"), URL("ftp", "a.com", "/p/q")}

ScopeRecv ==
    {Recv("n", "v", "", "", 0, 0, FALSE),
     Recv("n", "v", "", "", 0, 0, TRUE),
     Recv("m", "v", "a.com", "", 0, 0, FALSE)}

SpecScope ==
    /\ \E s \in {NewFlatStorage, NewFancyStorage(FALSE)} :
          NewJar(0, 0, 0, FALSE, FALSE, s, MaxClock - 1)
    /\ [][Next(ScopeURLs, Singles(ScopeRecv))]_vars

(***************************************************************************)
(* Domain attributes: hosts under com, co.uk and the wildcard kyoto.jp set *)
(* cookies with Domain attributes of their own and of other domains.       *)
(***************************************************************************)
DomainURLs ==
    {URL("http", "foo.bar.com", "/"), URL("http", "www.bbc.co.uk", "/"),
     URL("http", "a.b.kyoto.jp", "/")}

DomainAttrs ==
    {"", "foo.com", "bar.foo.com", "ar.com", "bar.com", "co.uk", "kyoto.jp",
     "b.kyoto.jp"}

DomainRecv == {Recv("n", "v", d, "", 0, 0, FALSE) : d \in DomainAttrs}

SpecDomain ==
    /\ \E s \in {NewFlatStorage, NewFancyStorage(TRUE)} :
          NewJar(0, 0, 0, FALSE, FALSE, s, MaxClock)
    /\ [][Next(DomainURLs, Singles(DomainRecv))]_vars

(***************************************************************************)
(* Eviction: a FancyStorage jar that holds one cookie; two hosts in two    *)
(* domains set session cookies of three names, also several times in one   *)
(* batch.  Nothing expires.                                                *)
(***************************************************************************)
\* the calls of a client of a jar that evicts
NextWithin(U, B, created, deleted) ==
    \/ \E u \in U, cookies \in B : SetCookiesWithin(u, cookies, created, deleted)
    \/ \E u \in U : Cookies(u)
    \/ JarAll

EvictURLs == {URL("http", "a.com", "/"), URL("http", "b.com", "/")}

EvictRecv == {Recv(n, "v", "", "", 0, 0, FALSE) : n \in {"a", "b", "c"}}

\* no cookie, one cookie, or a batch of MaxEvictBatch cookies that sets
\* cookies of different names and then the first of them once more
EvictBatches ==
    Singles(EvictRecv)
        \cup {b \in [1..MaxEvictBatch -> EvictRecv] :
                 /\ b[MaxEvictBatch] = b[1]
                 /\ \A i, k \in 1..(MaxEvictBatch - 1) : i < k => b[i] # b[k]}

SpecEvict ==
    /\ \E s \in {NewFancyStorage(TRUE), NewFancyStorage(FALSE)} :
          NewJar(0, 1, 0, FALSE, FALSE, s, MaxClock - 1)
    /\ [][NextWithin(EvictURLs, EvictBatches, MaxEvictCreated,
                     MaxDeleted)]_vars

(***************************************************************************)
(* Least recently used: a jar that holds one or two cookies; one host sets *)
(* session cookies of two names under /A and under /B and asks for the     *)
(* cookies of either path.  Nothing expires.                               *)
(***************************************************************************)
LRUURLs == {URL("http", "a.com", "/A/x"), URL("http", "a.com", "/B/x")}

LRURecv == {Recv(n, "v", "", "", 0, 0, FALSE) : n \in {"a", "b"}}

\* batches that name no cookie twice
LRUBatches ==
    {b \in Batches(LRURecv) : \A i, k \in 1..Len(b) : b[i] = b[k] => i = k}

SpecLRU ==
    /\ \E s \in {NewFlatStorage, NewFancyStorage(TRUE)}, total \in {1, 2} :
          NewJar(0, total, 0, FALSE, FALSE, s, MaxClock - 1)
    /\ [][NextWithin(LRUURLs, LRUBatches, MaxEvictCreated,
                     MaxDeleted)]_vars

(***************************************************************************)
(* Reads and eviction: a FancyStorage jar that holds three cookies; a host *)
(* sets two cookies under /A and one under /B and asks for those under /A, *)
(* and a host of another domain sets cookies.  Nothing expires.            *)
(***************************************************************************)
ProtectURLs == {URL("http", "a.com", "/A/x"), URL("http", "b.com", "/")}

ProtectBatches ==
    {<<>>,
     <<Recv("a", "v", "", "/A", 0, 0, FALSE),
       Recv("b", "v", "", "/A", 0, 0, FALSE)>>,
     <<Recv("e", "v", "", "/B", 0, 0, FALSE)>>}

SpecProtect ==
    /\ NewJar(0, 3, 0, FALSE, FALSE, NewFancyStorage(TRUE), MaxClock - 2)
    /\ [][NextWithin(ProtectURLs, ProtectBatches, MaxProtectCreated,
                     MaxDeleted)]_vars

(***************************************************************************)
(* Sweep: one host sets a session cookie and two cookies that expire one   *)
(* tick before the clock stops.                                            *)
(***************************************************************************)
OneHostURLs == {URL("http", "a.com", "/")}

SweepRecv ==
    {Recv("n", "v", "", "", 0, 0, FALSE),
     Recv("e", "v", "", "", MaxClock - 1, 0, FALSE),
     Recv("f", "v", "", "", MaxClock - 1, 0, FALSE)}

SpecSweep ==
    /\ \E s \in Storages :
          NewJar(0, 0, 0, FALSE, FALSE, s, MaxClock - 2)
    /\ [][NextWithin(OneHostURLs, Singles(SweepRecv), MaxEvictCreated,
                     MaxDeleted)]_vars

(***************************************************************************)
(* MaxAge and Expires: one host sets one cookie with every combination of  *)
(* a negative, absent or positive MaxAge and an absent, near or far        *)
(* Expires.                                                                *)
(***************************************************************************)
AgeRecv ==
    {Recv("n", "v", "", "", e, a, FALSE) :
        e \in {0, MaxClock - 1, farFuture}, a \in {-1, 0, 1}}

InitAge ==
    \E s \in {NewFlatStorage, NewFancyStorage(TRUE)} :
        NewJar(0, 0, 0, FALSE, FALSE, s, MaxClock - 1)

\* every batch of one cookie, and the batches of two cookies of which the
\* first has no Expires
AgeBatches ==
    {b \in Batches(AgeRecv) : Len(b) = 2 => b[1].Expires = 0}

SpecAge == InitAge /\ [][Next(OneHostURLs, AgeBatches)]_vars

(***************************************************************************)
(* Updates: one host sets the same cookie again with other attributes.     *)
(***************************************************************************)
UpdateRecv ==
    {[Recv("n", v, d, "", e, a, sec) EXCEPT !.HttpOnly = ho] :
        <<v, d, e, a, sec, ho>> \in
            {<<"v", "", 0, 0, FALSE, FALSE>>,
             <<"w", "a.com", farFuture, 0, TRUE, TRUE>>,
             <<"w", "", 0, 1, FALSE, TRUE>>,
             <<"v", "a.com", farFuture, 0, TRUE, FALSE>>}}

\* every batch of one cookie, and the batches of two cookies of which the
\* first has no Domain attribute
UpdateBatches ==
    {b \in Batches(UpdateRecv) : Len(b) = 2 => b[1].Domain = ""}

SpecUpdate == InitAge /\ [][Next(OneHostURLs, UpdateBatches)]_vars

(***************************************************************************)
(* Serialisation (TestGob): a jar with a session cookie, a cookie that     *)
(* expires soon and one that expires far ahead is encoded, and what was    *)
(* encoded is decoded into the same jar.  The encoded bytes are modelled   *)
(* by the cookies they hold.                                               *)
(***************************************************************************)
\* FlatStorage.GobEncode encodes f.cookies as it is; FancyStorage.GobEncode
\* encodes f.flat, so every bucket's f.cookies
StorageGobEncode(s) ==
    IF s.kind = "flat" THEN s.cookies ELSE Flatten(s.flat, DOMAIN s.flat)

\* Jar.GobEncode()
GobEncode ==
    /\ last' = Call("GobEncode", URL("", "", ""), <<>>, 0, 0,
                    StorageGobEncode(storage), <<>>, FALSE)
    /\ UNCHANGED <<jar, storage, theRuleCache, clock, goroutines>>

\* Jar.GobDecode(buf): the body is commented out, it returns nil
GobDecode(buf) ==
    /\ last' = Call("GobDecode", URL("", "", ""), <<>>, 0, 0, buf, <<>>, FALSE)
    /\ UNCHANGED <<jar, storage, theRuleCache, clock, goroutines>>

GobRecv ==
    {Recv("a", "v", "", "", 0, 0, FALSE),
     Recv("d", "v", "", "", MaxClock - 1, 0, FALSE),
     Recv("c", "v", "", "", farFuture, 0, FALSE)}

\* the calls of TestGob: what is decoded is what the last GobEncode returned
NextGob ==
    \/ NextWithin(OneHostURLs, Singles(GobRecv), MaxCreated, MaxDeleted)
    \/ GobEncode
    \/ \E buf \in IF last.op \in {"GobEncode", "GobDecode"}
                   THEN {last.ret} ELSE {} : GobDecode(buf)

SpecGob ==
    /\ \E s \in {NewFlatStorage, NewFancyStorage(TRUE)} :
          NewJar(0, 0, 0, FALSE, FALSE, s, MaxClock - 2)
    /\ [][NextGob]_vars

(***************************************************************************)
(* Size limit: a jar that takes two bytes per cookie; one host sets and    *)
(* deletes a cookie whose name and value have one, two or three bytes.     *)
(***************************************************************************)
BytesRecv ==
    {Recv("n", v, "", "", 0, a, FALSE) : v \in {"", "v", "vv"}, a \in {-1, 0}}

SpecBytes ==
    /\ \E s \in {NewFlatStorage, NewFancyStorage(TRUE)} :
          NewJar(0, 0, 2, FALSE, FALSE, s, MaxClock - 1)
    /\ [][Next(OneHostURLs, Batches(BytesRecv))]_vars

(***************************************************************************)
(* Hosts and Domain attributes (TestStrictnessWithIP, TestDomainAndType):  *)
(* an IP address, a host under com and a host that is a public suffix set  *)
(* a cookie with no Domain attribute, with their own name, with a leading  *)
(* dot, with malformed attributes and with a TLD, in strict and lax jars   *)
(* that do and do not allow all domains.                                   *)
(***************************************************************************)
SpecAttr ==
    /\ \E lax, all \in BOOLEAN :
          NewJar(0, 0, 0, lax, all, NewFlatStorage, MaxClock)
    /\ [][Next({URL("http", "1.2.3.4", "/"), URL("http", "a.com", "/"),
                URL("http", "co.uk", "/")},
               Singles({Recv("n", "v", d, "", 0, 0, FALSE) :
                           d \in {"", "1.2.3.4", ".1.2.3.4", "a.com", ".a.com",
                                  ".", "..a.com", "com", ".com", ".COM",
                                  "co.uk"}}))]_vars

(***************************************************************************)
(* Paths (TestPathMatch, "Explicit path"): one host sets cookies with the  *)
(* Path attributes /some/path and /some/ and one on the default path, and  *)
(* asks for the cookies of paths around them.                              *)
(***************************************************************************)
SpecPath ==
    /\ \E s \in {NewFlatStorage, NewFancyStorage(TRUE)} :
          NewJar(0, 0, 0, FALSE, FALSE, s, MaxClock - 1)
    /\ [][Next({URL("http", "a.com", p) :
                   p \in {"/some/path", "/some/path/foo", "/some", "/some/",
                          "/some/paths"}},
               Singles({Recv("n", "v", "", "/some/path", 0, 0, FALSE),
                        Recv("m", "v", "", "/some/", 0, 0, FALSE),
                        Recv("k", "v", "", "", 0, 0, FALSE)}))]_vars

(***************************************************************************)
(* Properties.  last is the call that led to the state: last.now is the    *)
(* time it read first, last.ret what it returned and last.acts, for        *)
(* SetCookies, what update did with each cookie of the batch.              *)
(***************************************************************************)
HostOf(u) == host(u).host

Scheme(u) == ToLower(u.Scheme)

Stored == Records(storage)

\* C1: in every state reached by SetCookies, Cookies and All on either
\* storage, no two stored cookies have the same Domain, Path and Name.
UniqueIdentity ==
    \A i, k \in 1..Len(Stored) :
        (/\ Stored[i].Domain = Stored[k].Domain
         /\ Stored[i].Path = Stored[k].Path
         /\ Stored[i].Name = Stored[k].Name) => i = k

\* a SetCookies that found the cookie it was given among several
UniqueIdentityWitness ==
    /\ last.op = "SetCookies"
    /\ Len(Stored) >= 2
    /\ \E i \in 1..Len(last.acts) : last.acts[i].action = "updateCookie"

\* C2: when MaxCookiesTotal is positive, the storage holds at most
\* MaxCookiesTotal cookies after SetCookies has returned, on either storage
\* and for every length of the batch.
TotalCap ==
    (last.op = "SetCookies" /\ jar.MaxCookiesTotal > 0)
        => Len(Stored) <= jar.MaxCookiesTotal

\* a SetCookies that created more cookies than the jar may hold
TotalCapWitness ==
    /\ last.op = "SetCookies"
    /\ jar.MaxCookiesTotal > 0
    /\ Cardinality({i \in 1..Len(last.acts) :
                       last.acts[i].action = "createCookie"})
           > jar.MaxCookiesTotal
    /\ Len(Stored) = jar.MaxCookiesTotal

\* C3: when MaxCookiesPerDomain is positive, no domain holds more than
\* MaxCookiesPerDomain cookies after SetCookies has returned, on the flat
\* storage as on the fancy one.
PerDomainCap ==
    (last.op = "SetCookies" /\ jar.MaxCookiesPerDomain > 0)
        => \A i \in 1..Len(Stored) :
               Cardinality({k \in 1..Len(Stored) :
                               Stored[k].Domain = Stored[i].Domain})
                   <= jar.MaxCookiesPerDomain

\* C4: Cookies never returns a cookie whose Expires is set and before the
\* time of the retrieval, also when that cookie is still in the storage.
NoExpiredOnRetrieval ==
    last.op = "Cookies"
        => \A i \in 1..Len(last.ret) :
               ~(last.ret[i].Expires # 0 /\ last.ret[i].Expires < last.now)

\* a Cookies that returned a cookie and left out an expired one of the same
\* host and path that is still stored
NoExpiredOnRetrievalWitness ==
    /\ last.op = "Cookies"
    /\ Len(last.ret) >= 1
    /\ \E k \in 1..Len(Stored) :
           /\ Stored[k].Expires # 0
           /\ Stored[k].Expires < last.now
           /\ Stored[k].Domain = HostOf(last.u)
           /\ Stored[k].Path = last.ret[1].Path

\* C5: what Cookies returns is sorted by the length of Path, longest first,
\* and cookies with paths of the same length by Created, oldest first.
SendOrder ==
    last.op = "Cookies"
        => \A i, k \in 1..Len(last.ret) :
               i < k =>
                   \/ Len(last.ret[i].Path) > Len(last.ret[k].Path)
                   \/ /\ Len(last.ret[i].Path) = Len(last.ret[k].Path)
                      /\ last.ret[i].Created <= last.ret[k].Created

\* a Cookies that returned the cookie with the longer path first although it
\* was created later
SendOrderWitness ==
    /\ last.op = "Cookies"
    /\ Len(last.ret) = 2
    /\ Len(last.ret[1].Path) > Len(last.ret[2].Path)
    /\ last.ret[1].Created > last.ret[2].Created

\* C6: Cookies over http never returns a cookie whose Secure is set; a
\* SetCookies over http that updates the cookie without Secure clears the
\* flag, and Cookies over http then returns the cookie as it returns every
\* stored cookie of the host and path that is not Secure.
SecureIsolation ==
    /\ (last.op = "Cookies" /\ Scheme(last.u) = "http")
           => /\ \A i \in 1..Len(last.ret) : ~last.ret[i].Secure
              /\ \A k \in 1..Len(Stored) :
                     (/\ ~Stored[k].Secure
                      /\ Stored[k].Domain = HostOf(last.u)
                      /\ Stored[k].Path = defaultPath(last.u)
                      /\ Stored[k].Expires = 0)
                         => \E i \in 1..Len(last.ret) :
                                /\ last.ret[i].Name = Stored[k].Name
                                /\ last.ret[i].Domain = Stored[k].Domain
                                /\ last.ret[i].Path = Stored[k].Path
    /\ (last.op = "SetCookies" /\ Scheme(last.u) = "http")
           => \A i \in 1..Len(last.acts) :
                  (/\ last.acts[i].action = "updateCookie"
                   /\ ~last.cookies[i].Secure)
                      => /\ ~last.acts[i].cookie.Secure
                         /\ \E k \in 1..Len(Stored) :
                                /\ Stored[k].Name = last.acts[i].cookie.Name
                                /\ Stored[k].Domain = last.acts[i].cookie.Domain
                                /\ Stored[k].Path = last.acts[i].cookie.Path
                                /\ ~Stored[k].Secure

\* a SetCookies over http that cleared the Secure flag of a stored cookie
SecureIsolationWitness ==
    /\ last.op = "SetCookies"
    /\ Scheme(last.u) = "http"
    /\ \E i \in 1..Len(last.acts) :
           /\ last.acts[i].action = "updateCookie"
           /\ last.acts[i].before.Secure
           /\ ~last.acts[i].cookie.Secure

\* C7: Cookies returns a cookie whose HostOnly is set only when the host of
\* the URL is the Domain of the cookie, never for a sub-domain or a sibling.
HostOnlyScope ==
    last.op = "Cookies"
        => \A i \in 1..Len(last.ret) :
               last.ret[i].HostOnly => last.ret[i].Domain = HostOf(last.u)

\* a Cookies for a sub-domain that returned a cookie while the host cookie of
\* the parent domain is stored
HostOnlyScopeWitness ==
    /\ last.op = "Cookies"
    /\ HostOf(last.u) = "x.a.com"
    /\ Len(last.ret) >= 1
    /\ \E k \in 1..Len(Stored) :
           Stored[k].HostOnly /\ Stored[k].Domain = "a.com"

\* C8: every cookie SetCookies creates or updates has a Domain that is the
\* host of the URL or a suffix of it that starts after a dot.
DomainScope ==
    last.op = "SetCookies"
        => \A i \in 1..Len(last.acts) :
               last.acts[i].action \in {"createCookie", "updateCookie"}
                   => \/ HostOf(last.u) = last.acts[i].cookie.Domain
                      \/ HasSuffix(HostOf(last.u),
                                   "." \o last.acts[i].cookie.Domain)

\* foo.bar.com has set a cookie for bar.com
DomainScopeWitness ==
    /\ last.op = "SetCookies"
    /\ HostOf(last.u) = "foo.bar.com"
    /\ \E i \in 1..Len(last.acts) :
           /\ last.acts[i].action = "createCookie"
           /\ last.acts[i].cookie.Domain = "bar.com"
           /\ ~last.acts[i].cookie.HostOnly

\* C9: when AllowAllDomains is off, no stored cookie that is not HostOnly has
\* a Domain on which allowCookiesOn does not allow cookies.
NoPublicSuffixDomainCookie ==
    ~jar.AllowAllDomains
        => \A k \in 1..Len(Stored) :
               ~Stored[k].HostOnly
                   => allowCookiesOn(theRuleCache, Stored[k].Domain).allow

\* C10: for a URL whose scheme is neither http nor https SetCookies leaves
\* the jar and its storage as they are and Cookies returns nothing and
\* leaves the storage, so every LastAccess, as it is.
NonHTTPIsolation ==
    [][(/\ last'.op \in {"SetCookies", "Cookies"}
        /\ Scheme(last'.u) \notin {"http", "https"})
           => /\ UNCHANGED <<jar, storage>>
              /\ last'.ret = <<>>
              /\ last'.acts = <<>>]_vars

\* a SetCookies with a cookie for an ftp URL on a jar that holds cookies
NonHTTPIsolationWitness ==
    /\ last.op = "SetCookies"
    /\ Scheme(last.u) = "ftp"
    /\ Len(last.cookies) >= 1
    /\ Len(Stored) >= 1

\* the set of the records of a storage
RecordSet(s) == {Records(s)[i] : i \in 1..Len(Records(s))}

\* the storage as the loop of the SetCookies call c leaves it when the call
\* starts in storage s with jar j and rule cache rc: what Cleanup is handed
BeforeCleanup(j, s, rc, c) ==
    SetCookiesLoop([jar |-> j, s |-> s, rc |-> rc, now |-> c.now,
                    acts |-> <<>>, panic |-> FALSE],
                   HostOf(c.u), defaultPath(c.u), c.cookies, 1).s

\* post is pre without the Cardinality(pre) - total records used least
LeastUsedEvicted(pre, post, total) ==
    /\ post \subseteq pre
    /\ Cardinality(post) = total
    /\ \A r \in pre \ post : \A k \in post : r.LastAccess <= k.LastAccess

\* C11: when a SetCookies on a FlatStorage jar leaves more than
\* MaxCookiesTotal cookies, Cleanup removes exactly the excess, and each
\* removed cookie was used no later than every cookie that is kept.
FlatLRUEviction ==
    [][(/\ last'.op = "SetCookies"
        /\ Scheme(last'.u) \in {"http", "https"}
        /\ storage.kind = "flat"
        /\ jar.MaxCookiesTotal > 0
        /\ Cardinality(RecordSet(BeforeCleanup(jar, storage, theRuleCache,
                                               last')))
               > jar.MaxCookiesTotal)
           => LeastUsedEvicted(
                  RecordSet(BeforeCleanup(jar, storage, theRuleCache, last')),
                  RecordSet(storage'), jar.MaxCookiesTotal)]_vars

\* a SetCookies that created a cookie in a full FlatStorage jar and kept a
\* cookie it did not write, one that was read after it was created
FlatLRUEvictionWitness ==
    /\ last.op = "SetCookies"
    /\ storage.kind = "flat"
    /\ Len(Stored) = jar.MaxCookiesTotal
    /\ \E i \in 1..Len(last.acts) : last.acts[i].action = "createCookie"
    /\ \E k \in 1..Len(Stored) :
           /\ Stored[k].Created < Stored[k].LastAccess
           /\ \A i \in 1..Len(last.acts) :
                  ~SameId(Stored[k], last.acts[i].cookie.Domain,
                          last.acts[i].cookie.Path, last.acts[i].cookie.Name)
    /\ jar.total = MaxEvictCreated

\* C12: when a SetCookies on a FancyStorage jar leaves more than
\* MaxCookiesTotal cookies in the buckets together, Cleanup removes exactly
\* the excess, each removed cookie used no later than every cookie that is
\* kept, also when several of the removed cookies are in one bucket.
FancyGlobalEviction ==
    [][(/\ last'.op = "SetCookies"
        /\ Scheme(last'.u) \in {"http", "https"}
        /\ storage.kind = "fancy"
        /\ jar.MaxCookiesTotal > 0
        /\ Cardinality(RecordSet(BeforeCleanup(jar, storage, theRuleCache,
                                               last')))
               > jar.MaxCookiesTotal)
           => LeastUsedEvicted(
                  RecordSet(BeforeCleanup(jar, storage, theRuleCache, last')),
                  RecordSet(storage'), jar.MaxCookiesTotal)]_vars

\* the record c is the stored record of one of the cookies in the sequence cs
Among(c, cs) ==
    \E i \in 1..Len(cs) : SameId(c, cs[i].Domain, cs[i].Path, cs[i].Name)

\* C13: every cookie Cookies returns has its LastAccess set by that call,
\* and a SetCookies that follows the call and has to evict removes a cookie
\* the call returned only if it keeps no cookie that was last used before
\* the call, that the call did not return and that this SetCookies did not
\* write.
ReadsProtect ==
    [][/\ last'.op = "Cookies"
           => \A i \in 1..Len(last'.ret) :
                  \E c \in RecordSet(storage') :
                      /\ Among(c, <<last'.ret[i]>>)
                      /\ c.LastAccess = last'.access + i - 1
       /\ (last.op = "Cookies" /\ last'.op = "SetCookies")
           => \A r, k \in RecordSet(storage) :
                  (/\ Among(r, last.ret)
                   /\ ~Among(r, Records(storage'))
                   /\ ~Among(k, last.ret)
                   /\ k.LastAccess < last.now
                   /\ ~Among(k, [i \in 1..Len(last'.acts) |->
                                     last'.acts[i].cookie]))
                      => ~Among(k, Records(storage'))]_vars

\* the working now of the last SetCookies when its loop was done: the time
\* the call read, advanced by one for every cookie handed to update
WorkingNow ==
    last.now + Cardinality({i \in 1..Len(last.acts) :
                               last.acts[i].action # "continue"})

\* C14: after a SetCookies for an http or https URL has returned, the
\* storage holds no cookie that is expired at the working now of the call,
\* wherever the expired cookies were in the storage.
SweptAfterSetCookies ==
    (last.op = "SetCookies" /\ Scheme(last.u) \in {"http", "https"})
        => \A k \in 1..Len(Stored) :
               ~(Stored[k].Expires # 0 /\ Stored[k].Expires < WorkingNow)

\* the working now of the SetCookies call c when it handed cookie i to update
NowAt(c, i) ==
    c.now + Cardinality({k \in 1..(i - 1) : c.acts[k].action # "continue"})

\* C15: for every cookie SetCookies accepted, a negative MaxAge is a delete
\* request whatever Expires is; a positive MaxAge stores the cookie with
\* Expires = now + MaxAge seconds whatever Expires is; without MaxAge an
\* Expires before now is a delete request and any other Expires is stored
\* as it is, an absent one as a session cookie.
DeleteOrStore ==
    last.op = "SetCookies"
        => \A i \in 1..Len(last.acts) :
               last.acts[i].action \notin {"continue", "invalidCookie"}
                   => LET c == last.cookies[i]
                          a == last.acts[i]
                          stored == a.action \in {"createCookie", "updateCookie"}
                      IN  /\ c.MaxAge < 0 => a.action = "deleteCookie"
                          /\ c.MaxAge > 0
                                 => /\ stored
                                    /\ a.cookie.Expires
                                           = NowAt(last, i) + c.MaxAge * Second
                          /\ (c.MaxAge = 0 /\ c.Expires # 0
                                  /\ c.Expires < NowAt(last, i))
                                 => a.action = "deleteCookie"
                          /\ (c.MaxAge = 0 /\ c.Expires # 0
                                  /\ c.Expires >= NowAt(last, i))
                                 => stored /\ a.cookie.Expires = c.Expires
                          /\ (c.MaxAge = 0 /\ c.Expires = 0)
                                 => stored /\ a.cookie.Expires = 0

\* a SetCookies that stored a cookie with a positive MaxAge although its
\* Expires was before now, as the second cookie of the batch
DeleteOrStoreWitness ==
    /\ last.op = "SetCookies"
    /\ Len(last.acts) = 2
    /\ last.cookies[2].MaxAge > 0
    /\ last.cookies[2].Expires # 0
    /\ last.cookies[2].Expires < NowAt(last, 2)
    /\ last.acts[2].action \in {"createCookie", "updateCookie"}
    /\ last.acts[2].cookie.Expires = NowAt(last, 2) + last.cookies[2].MaxAge * Second

\* the SetCookies call c cut down to its first n cookies
FirstOf(c, n) == [c EXCEPT !.cookies = SubSeq(@, 1, n)]

\* C16: when the first cookie of a SetCookies batch is a delete request
\* (MaxAge < 0, or MaxAge = 0 with an Expires before now) for a (domain,
\* path, name) that is not stored, handling it leaves the set of stored
\* records as it was, it is not classified as deleteCookie, and a batch of
\* that cookie alone leaves the count of empty slots as it was.
MissingDeleteNotCounted ==
    [][(/\ last'.op = "SetCookies"
        /\ Len(last'.acts) >= 1
        /\ last'.acts[1].action \notin {"continue", "invalidCookie"}
        /\ last'.cookies[1].Domain = ""
        /\ last'.cookies[1].Path = ""
        /\ \/ last'.cookies[1].MaxAge < 0
           \/ /\ last'.cookies[1].MaxAge = 0
              /\ last'.cookies[1].Expires # 0
              /\ last'.cookies[1].Expires < last'.now
        /\ ~\E k \in RecordSet(storage) :
               SameId(k, HostOf(last'.u), defaultPath(last'.u),
                      last'.cookies[1].Name))
          => /\ RecordSet(BeforeCleanup(jar, storage, theRuleCache,
                                        FirstOf(last', 1)))
                    = RecordSet(storage)
             /\ last'.acts[1].action # "deleteCookie"
             /\ Len(last'.acts) = 1 => jar'.empty = jar.empty]_vars

\* C17: when SetCookies is handed a cookie that is not a delete request and
\* whose (domain, path, name) is stored at that point of the batch, the
\* action is updateCookie on that record: Created, Domain, Path and Name stay,
\* Value, Secure, HttpOnly and Expires are those of the new cookie, HostOnly
\* tells whether the new cookie has no Domain attribute, LastAccess is the
\* working now, and the storage holds as many records as before.
UpdateFrame ==
    [][LET Frame(c, a, b, now) ==
               /\ a.action = "updateCookie"
               /\ a.before = b
               /\ a.cookie.Created = b.Created
               /\ a.cookie.Domain = b.Domain
               /\ a.cookie.Path = b.Path
               /\ a.cookie.Name = b.Name
               /\ a.cookie.Value = c.Value
               /\ a.cookie.Secure = c.Secure
               /\ a.cookie.HttpOnly = c.HttpOnly
               /\ a.cookie.HostOnly = (c.Domain = "")
               /\ a.cookie.Expires = IF c.MaxAge > 0
                                     THEN now + c.MaxAge * Second
                                     ELSE c.Expires
               /\ a.cookie.LastAccess = now
           Handed(c, a, pre, post, id, now) ==
               \A k \in 1..Len(pre) :
                   (/\ SameId(pre[k], id[1], id[2], c.Name)
                    /\ c.Path = ""
                    /\ a.action \notin {"continue", "invalidCookie"}
                    /\ ~(c.MaxAge < 0)
                    /\ ~(c.MaxAge = 0 /\ c.Expires # 0 /\ c.Expires < now))
                      => /\ Frame(c, a, pre[k], now)
                         /\ \E n \in 1..Len(post) : post[n] = a.cookie
                         /\ Len(post) = Len(pre)
       IN  last'.op = "SetCookies"
                 => \A i \in 1..Len(last'.acts) :
                        Handed(last'.cookies[i], last'.acts[i],
                               Records(BeforeCleanup(jar, storage, theRuleCache,
                                                     FirstOf(last', i - 1))),
                               Records(BeforeCleanup(jar, storage, theRuleCache,
                                                     FirstOf(last', i))),
                               <<HostOf(last'.u), defaultPath(last'.u)>>,
                               NowAt(last', i))]_vars

\* a SetCookies that updated a cookie created at an earlier time, changing
\* its Value, Secure, HttpOnly, HostOnly and Expires
UpdateFrameWitness ==
    /\ last.op = "SetCookies"
    /\ \E i \in 1..Len(last.acts) :
          /\ last.acts[i].action = "updateCookie"
          /\ last.acts[i].before.Created < NowAt(last, i)
          /\ last.acts[i].cookie.Created = last.acts[i].before.Created
          /\ last.acts[i].cookie.Value # last.acts[i].before.Value
          /\ last.acts[i].cookie.Secure # last.acts[i].before.Secure
          /\ last.acts[i].cookie.HttpOnly # last.acts[i].before.HttpOnly
          /\ last.acts[i].cookie.HostOnly # last.acts[i].before.HostOnly
          /\ last.acts[i].cookie.Expires # last.acts[i].before.Expires
          /\ last.acts[i].cookie \in RecordSet(storage)

\* C18: what GobEncode returns holds exactly the stored cookies that have an
\* Expires which is not before the time of the call; no session cookie and
\* no expired cookie is in it.
EncodeFilter ==
    last.op = "GobEncode"
        => {last.ret[i] : i \in 1..Len(last.ret)}
               = {c \in RecordSet(storage) :
                      c.Expires # 0 /\ ~(c.Expires < clock)}

\* C19: GobDecode of what GobEncode returned leaves in the jar exactly the
\* cookies that had an Expires not before the time of the call: session
\* cookies and expired cookies are gone, also when the same bytes are
\* decoded once more later.
RoundTrip ==
    [][last'.op = "GobDecode"
          => RecordSet(storage')
                 = {c \in RecordSet(storage) :
                        c.Expires # 0 /\ ~(c.Expires < clock')}]_vars

\* C20: in every SetCookies call of a jar with a positive MaxBytesPerCookie,
\* a cookie whose name and value together are longer than the limit is
\* passed over, the storage being after it what it was before it, also when
\* it asks for a deletion; a cookie of exactly the limit is created, updated
\* or deleted; and the loop leaves the storage as it would have left it had
\* the batch been without the cookies that are too long.
OversizeDrop ==
    [][LET Size(c) == Len(c.Name) + Len(c.Value)
           Fits(c) == Size(c) <= jar.MaxBytesPerCookie
           Same(a, b) == a = b
       IN  (last'.op = "SetCookies" /\ jar.MaxBytesPerCookie > 0)
             => /\ \A i \in 1..Len(last'.acts) :
                     /\ ~Fits(last'.cookies[i])
                            => /\ last'.acts[i].action = "continue"
                               /\ Same(BeforeCleanup(jar, storage, theRuleCache,
                                                     FirstOf(last', i)),
                                       BeforeCleanup(jar, storage, theRuleCache,
                                                     FirstOf(last', i - 1)))
                     /\ Size(last'.cookies[i]) = jar.MaxBytesPerCookie
                            => last'.acts[i].action
                                   \in {"createCookie", "updateCookie",
                                        "deleteCookie"}
                /\ Same(BeforeCleanup(jar, storage, theRuleCache, last'),
                        BeforeCleanup(jar, storage, theRuleCache,
                                      [last' EXCEPT
                                          !.cookies = SelectSeq(@, Fits)]))]_vars

\* a SetCookies whose first cookie asks for a deletion but is too long, and
\* whose second cookie, of exactly the limit, then updates the cookie that
\* is still stored, at the time the call began
OversizeDropWitness ==
    /\ last.op = "SetCookies"
    /\ Len(last.acts) = 2
    /\ Len(last.cookies[1].Name) + Len(last.cookies[1].Value)
           > jar.MaxBytesPerCookie
    /\ last.cookies[1].MaxAge < 0
    /\ last.acts[1].action = "continue"
    /\ Len(last.cookies[2].Name) + Len(last.cookies[2].Value)
           = jar.MaxBytesPerCookie
    /\ last.acts[2].action = "updateCookie"
    /\ last.acts[2].cookie.LastAccess = last.now

\* C21: when the host of a SetCookies call is an IP address, a cookie with
\* no Domain attribute is stored as a host cookie of that host; a cookie
\* with a Domain attribute is rejected, unless the jar is in LaxMode and the
\* attribute equals the host byte for byte, and then it is stored as a host
\* cookie of that host; a Domain attribute with a leading dot is rejected in
\* both modes.
IPHostCookies ==
    (last.op = "SetCookies" /\ HostOf(last.u) = "1.2.3.4")
        => \A i \in 1..Len(last.acts) :
               LET c == last.cookies[i]
                   a == last.acts[i]
                   kept == /\ a.action \in {"createCookie", "updateCookie"}
                           /\ a.cookie.HostOnly
                           /\ a.cookie.Domain = HostOf(last.u)
                           /\ a.cookie \in RecordSet(storage)
               IN  /\ c.Domain = "" => kept
                   /\ (c.Domain # "" /\ jar.LaxMode
                           /\ c.Domain = HostOf(last.u)) => kept
                   /\ (c.Domain # "" /\ ~(jar.LaxMode
                                             /\ c.Domain = HostOf(last.u)))
                          => a.action = "invalidCookie"
                   /\ c.Domain = ".1.2.3.4" => a.action = "invalidCookie"

\* a lax jar that stored the cookie of an IP host whose Domain attribute is
\* that address
IPHostCookiesWitness ==
    /\ last.op = "SetCookies"
    /\ jar.LaxMode
    /\ HostOf(last.u) = "1.2.3.4"
    /\ Len(last.acts) = 1
    /\ last.cookies[1].Domain = "1.2.3.4"
    /\ last.acts[1].action = "createCookie"
    /\ last.acts[1].cookie.HostOnly
    /\ last.acts[1].cookie \in RecordSet(storage)

\* C22: when the host of a SetCookies call is not an IP address, a cookie
\* whose Domain attribute, one leading dot taken off and put in lower case,
\* is empty, still begins with a dot or holds no dot at all is rejected and
\* the storage is after it what it was before it, whatever LaxMode and
\* AllowAllDomains are.
MalformedDomainRejected ==
    [][LET Stripped(d) ==
               ToLower(IF At(d, 1) = "." THEN SubSeq(d, 2, Len(d)) ELSE d)
           Bad(d) ==
               \/ Len(d) = 0
               \/ At(d, 1) = "."
               \/ \A k \in 1..Len(d) : At(d, k) # "."
       IN  (last'.op = "SetCookies" /\ HostOf(last'.u) # "1.2.3.4")
             => \A i \in 1..Len(last'.acts) :
                    (/\ last'.cookies[i].Domain # ""
                     /\ Bad(Stripped(last'.cookies[i].Domain)))
                       => /\ last'.acts[i].action = "invalidCookie"
                          /\ BeforeCleanup(jar, storage, theRuleCache,
                                           FirstOf(last', i))
                                = BeforeCleanup(jar, storage, theRuleCache,
                                                FirstOf(last', i - 1))]_vars

\* a jar that allows all domains and has stored a cookie turns away a cookie
\* with the Domain attribute .COM
MalformedDomainRejectedWitness ==
    /\ last.op = "SetCookies"
    /\ jar.AllowAllDomains
    /\ jar.LaxMode
    /\ HostOf(last.u) = "a.com"
    /\ Len(last.acts) = 1
    /\ last.cookies[1].Domain = ".COM"
    /\ last.acts[1].action = "invalidCookie"
    /\ Len(Records(storage)) > 0

\* C30, as the claim has it: every record that SetCookies writes with
\* HostOnly was written for a cookie without a Domain attribute.
HostOnlyWithoutDomainAttr ==
    last.op = "SetCookies"
        => \A i \in 1..Len(last.acts) :
               (/\ last.acts[i].action \in {"createCookie", "updateCookie"}
                /\ last.acts[i].cookie.HostOnly)
                  => last.cookies[i].Domain = ""

\* C30: every record that SetCookies writes with HostOnly was written for a
\* cookie without a Domain attribute, or for one whose Domain attribute was
\* byte for byte the host of the request, that host being an IP address and
\* the jar in LaxMode, or that host being a public suffix and the jar not
\* allowing all domains.
HostOnlyProvenance ==
    last.op = "SetCookies"
        => \A i \in 1..Len(last.acts) :
               (/\ last.acts[i].action \in {"createCookie", "updateCookie"}
                /\ last.acts[i].cookie.HostOnly)
                  => \/ last.cookies[i].Domain = ""
                     \/ /\ last.cookies[i].Domain = HostOf(last.u)
                        /\ \/ HostOf(last.u) = "1.2.3.4" /\ jar.LaxMode
                           \/ HostOf(last.u) = "co.uk" /\ ~jar.AllowAllDomains

\* the host co.uk has stored a host cookie for a cookie with Domain=co.uk
HostOnlyProvenanceWitness ==
    /\ last.op = "SetCookies"
    /\ HostOf(last.u) = "co.uk"
    /\ Len(last.acts) = 1
    /\ last.cookies[1].Domain = "co.uk"
    /\ last.acts[1].action \in {"createCookie", "updateCookie"}
    /\ last.acts[1].cookie.HostOnly
    /\ last.acts[1].cookie \in RecordSet(storage)

\* C26: Cookies(u) returns a stored cookie of the host of u exactly when its
\* path P and the path R of u are equal, or P is a prefix of R and P ends in
\* a slash or the character of R after the prefix is a slash.
PathMatch ==
    LET Prefix(P, R) ==
            Len(P) <= Len(R) /\ \A k \in 1..Len(P) : At(P, k) = At(R, k)
        Match(P, R) ==
            \/ P = R
            \/ /\ Prefix(P, R)
               /\ \/ At(P, Len(P)) = "/"
                  \/ Len(R) > Len(P) /\ At(R, Len(P) + 1) = "/"
    IN  last.op = "Cookies"
            => \A c \in RecordSet(storage) :
                   (\E i \in 1..Len(last.ret) :
                        last.ret[i].Name = c.Name /\ last.ret[i].Path = c.Path)
                       <=> Match(c.Path, last.u.Path)

\* with cookies for /some/path and for /some/ stored, both are returned for
\* /some/path/foo
PathMatchWitness ==
    /\ last.op = "Cookies"
    /\ last.u.Path = "/some/path/foo"
    /\ \E i \in 1..Len(last.ret) : last.ret[i].Path = "/some/path"
    /\ \E i \in 1..Len(last.ret) : last.ret[i].Path = "/some/"

\* C27: the cookies of one SetCookies batch are written with the time the
\* call read advanced by one tick for each cookie before them, so two
\* cookies the batch creates have Created values that differ and are in the
\* order of the batch; the cookies one Cookies call returns have, in the
\* order they are sent, LastAccess values that go up by one tick.
DistinctTicks ==
    /\ last.op = "SetCookies"
           => /\ \A i \in 1..Len(last.acts) :
                     /\ last.acts[i].action \in {"createCookie", "updateCookie"}
                     /\ last.acts[i].cookie.LastAccess = last.now + i - 1
                     /\ last.acts[i].action = "createCookie"
                            => last.acts[i].cookie.Created = last.now + i - 1
              /\ \A i, k \in 1..Len(last.acts) :
                     (/\ i < k
                      /\ last.acts[i].action = "createCookie"
                      /\ last.acts[k].action = "createCookie")
                        => last.acts[i].cookie.Created
                               < last.acts[k].cookie.Created
    /\ last.op = "Cookies"
           => \A i \in 1..Len(last.ret) :
                  \E c \in RecordSet(storage) :
                      /\ SameId(c, last.ret[i].Domain, last.ret[i].Path,
                                last.ret[i].Name)
                      /\ c.LastAccess = last.access + i - 1

\* a Cookies call that returned two cookies which one SetCookies batch had
\* created, so with different Created values
DistinctTicksWitness ==
    /\ last.op = "Cookies"
    /\ Len(last.ret) = 2
    /\ last.ret[1].Created # last.ret[2].Created
    /\ last.ret[1].LastAccess = last.ret[1].Created
    /\ last.ret[2].LastAccess = last.ret[2].Created
    /\ \E c, d \in RecordSet(storage) :
          /\ c.Name = last.ret[1].Name
          /\ d.Name = last.ret[2].Name
          /\ d.LastAccess = c.LastAccess + 1

\* C28: no two cookies that one Cookies call returns have paths of the same
\* length and the same Created, so sendList.Less orders every two of them,
\* also when two SetCookies calls read the same time.
TotalSendOrder ==
    last.op = "Cookies"
        => \A i, k \in 1..Len(last.ret) :
               i < k => ~(/\ Len(last.ret[i].Path) = Len(last.ret[k].Path)
                          /\ last.ret[i].Created = last.ret[k].Created)

\* C29: a step of SetCookies or Cookies leaves no stored cookie with a
\* Created or a LastAccess before the one it had, the clock never going
\* back.
TimestampsMonotonic ==
    [][\A c \in RecordSet(storage), d \in RecordSet(storage') :
           SameId(d, c.Domain, c.Path, c.Name)
               => d.Created >= c.Created /\ d.LastAccess >= c.LastAccess]_vars

\* C23: the first SetCookies call on a jar leaves in its storage, flat or
\* partitioned by either key, the records that the same call at the same
\* time leaves in the FlatStorage of a jar with the same configuration; so
\* All, and Cookies for every URL, return the same cookies from both.
BackendsInterchangeable ==
    [][(last.op = "NewJar" /\ last'.op = "SetCookies")
          => RecordSet(storage')
                 = RecordSet(Cleanup(BeforeCleanup(jar, NewFlatStorage,
                                                   theRuleCache, last'),
                                     jar.MaxCookiesTotal,
                                     jar.MaxCookiesPerDomain,
                                     NowAt(last', Len(last'.acts) + 1),
                                     <<>>, <<>>).s)]_vars

(***************************************************************************)
(* Default caps: a jar with every option left at zero, on each            *)
(* FancyStorage (the FlatStorage has no per-domain cap to default), is     *)
(* handed single cookies and three batches that together hold              *)
(* MaxCookiesPerDomain + 1 cookies of different names; the cookies of the  *)
(* batches carry a path that the request path does not match, so Cookies   *)
(* does not return them.                                                   *)
(***************************************************************************)
MaxCookiesPerDomain == 50

MaxCookiesTotal == 3000

SpecDefault ==
    /\ \E s \in Storages \ {NewFlatStorage} :
           NewJar(0, 0, 0, FALSE, FALSE, s, MaxClock - 1)
    /\ [][LET third == (MaxCookiesPerDomain + 1) \div 3
              Numbered(i) == Recv(At("0123456789", (i \div 10) + 1)
                                      \o At("0123456789", (i % 10) + 1),
                                  "v", "", "/x", 0, 0, FALSE)
          IN  NextWithin(
                  OneHostURLs,
                  Singles({Recv("n", "v", "", "", 0, 0, FALSE)})
                      \cup {[i \in 1..third |-> Numbered(b * third + i)] :
                               b \in 0..2},
                  MaxCookiesPerDomain + 1, MaxDeleted)]_vars

\* C24: after every SetCookies on a jar whose MaxCookiesTotal and
\* MaxCookiesPerDomain are zero the storage holds no more than the default
\* of 3000 cookies, and no more than the default of 50 cookies of any one
\* domain.
DefaultCaps ==
    (last.op = "SetCookies" /\ jar.MaxCookiesTotal = 0
         /\ jar.MaxCookiesPerDomain = 0)
        => /\ Len(Stored) <= defaultVal(jar.MaxCookiesTotal, MaxCookiesTotal)
           /\ \A i \in 1..Len(Stored) :
                  Cardinality({k \in 1..Len(Stored) :
                                  Stored[k].Domain = Stored[i].Domain})
                      <= defaultVal(jar.MaxCookiesPerDomain,
                                    MaxCookiesPerDomain)

(***************************************************************************)
(* Goroutines.  go jar.SetCookies(u, cookies) and go jar.Cookies(u) start  *)
(* a goroutine; goroutines[t] tells where goroutine t stands (pc: before   *)
(* "Lock", in the "range" loop at cookie i, before "Cleanup", before       *)
(* "Retrieve", before the deferred "Unlock", "done"), what it was called   *)
(* with, what it has read and built so far, and held: the jar, the         *)
(* storage and the rule cache as they were when it took jar.lock.          *)
(***************************************************************************)
MaxGoroutines == 2

\* a mutex that is never seen as held: with it Serialised fails
LockedNever(j) == FALSE

\* jar.lock is held
Locked(j) == j.lock # 0

NextLock(U, B) ==
    LET n == Len(goroutines)
        Started(pc, op, u, cookies, now) ==
            [pc |-> pc, op |-> op, u |-> u, cookies |-> cookies, now |-> now,
             working |-> now, access |-> 0, i |-> 1, acts |-> <<>>,
             ret |-> <<>>, panic |-> FALSE, held |-> <<>>]
        With(t, g) == [goroutines EXCEPT ![t] = g]
        \* SetCookies up to jar.lock.Lock(): it has read the time
        GoSetCookies(u, cookies) ==
            /\ n < MaxGoroutines
            /\ IF ~isHTTP(u) \/ host(u).err
               THEN /\ goroutines' = Append(goroutines,
                                            Started("done", "SetCookies", u,
                                                    cookies, 0))
                    /\ UNCHANGED clock
               ELSE \E now \in clock..Latest :
                      /\ goroutines' = Append(goroutines,
                                              Started("Lock", "SetCookies", u,
                                                      cookies, now))
                      /\ clock' = now
            /\ UNCHANGED <<jar, storage, theRuleCache, last>>
        \* Cookies up to jar.lock.Lock()
        GoCookies(u) ==
            /\ n < MaxGoroutines
            /\ goroutines' = Append(goroutines,
                                    Started(IF ~isHTTP(u) \/ host(u).err
                                            THEN "done" ELSE "Lock",
                                            "Cookies", u, <<>>, 0))
            /\ UNCHANGED <<jar, storage, theRuleCache, clock, last>>
        \* jar.lock.Lock(); defer jar.lock.Unlock()
        LockStep(t, g) ==
            /\ g.pc = "Lock"
            /\ ~Locked(jar)
            /\ jar' = [jar EXCEPT !.lock = t]
            /\ goroutines' =
                   With(t, [g EXCEPT !.pc = IF g.op = "Cookies" THEN "Retrieve"
                                          ELSE IF g.cookies = <<>>
                                          THEN "Cleanup" ELSE "range",
                                   !.held = [jar |-> jar, s |-> storage,
                                             rc |-> theRuleCache]])
            /\ UNCHANGED <<storage, theRuleCache, clock, last>>
        \* one pass of for _, cookie := range cookies
        Ranged(t, g, r) ==
            /\ jar' = r.jar
            /\ storage' = r.s
            /\ theRuleCache' = r.rc
            /\ goroutines' =
                   With(t, [g EXCEPT !.pc = IF r.panic THEN "Unlock"
                                          ELSE IF g.i = Len(g.cookies)
                                          THEN "Cleanup" ELSE "range",
                                   !.i = @ + 1, !.working = r.now,
                                   !.acts = r.acts, !.panic = r.panic])
            /\ UNCHANGED <<clock, last>>
        RangeStep(t, g) ==
            /\ g.pc = "range"
            /\ Ranged(t, g,
                      SetCookiesLoop([jar |-> jar, s |-> storage,
                                      rc |-> theRuleCache, now |-> g.working,
                                      acts |-> g.acts, panic |-> FALSE],
                                     HostOf(g.u), defaultPath(g.u),
                                     <<g.cookies[g.i]>>, 1))
        \* jar.Storage.Cleanup(jar.MaxCookiesTotal, jar.MaxCookiesPerDomain, now)
        CleanupStep(t, g) ==
            /\ g.pc = "Cleanup"
            /\ \E te \in [Buckets(storage) -> clock..Latest] :
                 \E order \in CleanupOrders(storage, jar.MaxCookiesTotal,
                                            jar.MaxCookiesPerDomain,
                                            g.working, te) :
                   /\ storage' = Cleanup(storage, jar.MaxCookiesTotal,
                                         jar.MaxCookiesPerDomain, g.working,
                                         te, order).s
                   /\ clock' = Max({clock} \cup {te[k] : k \in DOMAIN te})
            /\ goroutines' = With(t, [g EXCEPT !.pc = "Unlock"])
            /\ UNCHANGED <<jar, theRuleCache, last>>
        \* the body of Cookies: Retrieve, sort.Sort and the LastAccess loop
        Sent(t, g, t0, now, rt) ==
            \E p \in Sorted(storage, rt.sel) :
              /\ storage' = Touch(storage, rt.sel, p, now, 1)
              /\ theRuleCache' = rt.rc
              /\ clock' = now
              /\ goroutines' =
                     With(t, [g EXCEPT !.pc = "Unlock", !.now = t0,
                                     !.access = now,
                                     !.ret = [i \in 1..Len(p) |->
                                                 Deref(storage, rt.sel[p[i]])]])
              /\ UNCHANGED <<jar, last>>
        RetrieveStep(t, g) ==
            /\ g.pc = "Retrieve"
            /\ \E t0 \in clock..Latest : \E now \in t0..Latest :
                 Sent(t, g, t0, now,
                      Retrieve(storage, theRuleCache, HostOf(g.u),
                               IF g.u.Path = "" THEN "/" ELSE g.u.Path,
                               isSecure(g.u), t0))
        \* the deferred jar.lock.Unlock(), and the return
        UnlockStep(t, g) ==
            /\ g.pc = "Unlock"
            /\ jar' = [jar EXCEPT !.lock = 0]
            /\ goroutines' = With(t, [g EXCEPT !.pc = "done"])
            /\ last' = Call(g.op, g.u, g.cookies, g.now, g.access, g.ret,
                            g.acts, g.panic)
            /\ UNCHANGED <<storage, theRuleCache, clock>>
    IN  \/ \E u \in U, cookies \in B : GoSetCookies(u, cookies)
        \/ \E u \in U : GoCookies(u)
        \/ \E t \in 1..n : LockStep(t, goroutines[t])
        \/ \E t \in 1..n : RangeStep(t, goroutines[t])
        \/ \E t \in 1..n : CleanupStep(t, goroutines[t])
        \/ \E t \in 1..n : RetrieveStep(t, goroutines[t])
        \/ \E t \in 1..n : UnlockStep(t, goroutines[t])

(***************************************************************************)
(* Two goroutines on one jar, flat or partitioned: each sets a batch of    *)
(* up to MaxBatch cookies of one host or asks for the cookies of that      *)
(* host.                                                                   *)
(***************************************************************************)
SpecLock ==
    /\ \E s \in {NewFlatStorage, NewFancyStorage(TRUE)} :
           NewJar(0, 0, 0, FALSE, FALSE, s, MaxClock - 1)
    /\ [][NextLock(OneHostURLs, Batches(CapRecv))]_vars

\* C25: at most one goroutine is between jar.lock.Lock() and the deferred
\* Unlock, and when a goroutine unlocks, the jar, the storage, the rule
\* cache and what the call returns are what the whole call, SetCookies with
\* its loop and its Cleanup or Cookies with its Retrieve, sort and
\* LastAccess loop, makes in one piece of the jar as it was when the
\* goroutine took the lock, with the times the call read: the calls take
\* effect one after the other in the order in which they took the lock,
\* and none sees a batch that is applied in part.
Serialised ==
    [][/\ Cardinality({t \in 1..Len(goroutines') :
                          goroutines'[t].pc \in {"range", "Cleanup",
                                                 "Retrieve", "Unlock"}}) <= 1
       /\ \A t \in 1..Len(goroutines) :
             (goroutines[t].pc = "Unlock" /\ goroutines'[t].pc = "done")
                 => LET held == goroutines[t].held
                        c == last'
                        loop == SetCookiesLoop(
                                    [jar |-> held.jar, s |-> held.s,
                                     rc |-> held.rc, now |-> c.now,
                                     acts |-> <<>>, panic |-> FALSE],
                                    HostOf(c.u), defaultPath(c.u), c.cookies, 1)
                        rt == Retrieve(held.s, held.rc, HostOf(c.u),
                                       IF c.u.Path = "" THEN "/" ELSE c.u.Path,
                                       isSecure(c.u), c.now)
                    IN  IF c.op = "SetCookies"
                        THEN /\ jar' = loop.jar
                             /\ theRuleCache' = loop.rc
                             /\ c.acts = loop.acts
                             /\ c.panic = loop.panic
                             /\ \E te \in [Buckets(loop.s) -> c.now..MaxClock] :
                                  \E order \in CleanupOrders(
                                                   loop.s, jar.MaxCookiesTotal,
                                                   jar.MaxCookiesPerDomain,
                                                   loop.now, te) :
                                    storage' = Cleanup(loop.s,
                                                       jar.MaxCookiesTotal,
                                                       jar.MaxCookiesPerDomain,
                                                       loop.now, te, order).s
                        ELSE /\ jar' = held.jar
                             /\ theRuleCache' = rt.rc
                             /\ \E p \in Sorted(held.s, rt.sel) :
                                  /\ storage' = Touch(held.s, rt.sel, p,
                                                      c.access, 1)
                                  /\ c.ret = [i \in 1..Len(p) |->
                                                 Deref(held.s, rt.sel[p[i]])]]_vars

\* a goroutine holds the lock in the middle of its batch, the first cookie
\* stored and the second not yet handled, while a goroutine that was
\* started with Cookies waits for the lock
SerialisedWitness ==
    \E t, w \in 1..Len(goroutines) :
        /\ goroutines[t].pc = "range"
        /\ goroutines[t].i = 2
        /\ goroutines[t].acts[1].action = "createCookie"
        /\ goroutines[w].pc = "Lock"
        /\ goroutines[w].op = "Cookies"

(***************************************************************************)
(* Suffixes of an IP address: the host 3.4, which is no IP address, sets   *)
(* a host cookie and a domain cookie for 3.4, and the host 1.2.3.4 sets a  *)
(* host cookie; both ask for their cookies.                                *)
(***************************************************************************)
SpecIP ==
    /\ \E s \in Storages : NewJar(0, 0, 0, FALSE, FALSE, s, MaxClock - 2)
    /\ [][Next({URL("http", "3.4", "/"), URL("http", "1.2.3.4", "/")},
               Singles({Recv("n", "v", "", "", 0, 0, FALSE),
                        Recv("m", "v", "3.4", "", 0, 0, FALSE)}))]_vars

\* C31: Cookies(u) for a u whose host is an IP address returns no domain
\* cookie of another domain, also when that domain is a suffix of the
\* address that starts after a dot.
NoSuffixMatchOnIP ==
    (last.op = "Cookies" /\ isIP(HostOf(last.u)))
        => \A i \in 1..Len(last.ret) :
               last.ret[i].HostOnly \/ last.ret[i].Domain = HostOf(last.u)

(***************************************************************************)
(* Shapes of stored paths: one host sets cookies from request paths with   *)
(* and without a last segment, with a doubled and without a leading "/",   *)
(* with a Path attribute that ends in "/", with one that does not begin   *)
(* with "/", and without one.                                              *)
(***************************************************************************)
SpecShape ==
    /\ \E s \in {NewFlatStorage, NewFancyStorage(TRUE)} :
          NewJar(0, 0, 0, FALSE, FALSE, s, MaxClock - 1)
    /\ [][Next({URL("http", "a.com", p) :
                   p \in {"", "/abc", "/abc/", "/ab//"}},
               Singles({Recv("m", "v", "", "/some/", 0, 0, FALSE),
                        Recv("j", "v", "", "some/", 0, 0, FALSE),
                        Recv("k", "v", "", "", 0, 0, FALSE)}))]_vars

\* C32 as stated: every stored cookie has a path that begins with "/" and
\* that does not end in "/" unless it is "/".
StoredPathShape ==
    \A k \in 1..Len(Stored) :
        /\ Len(Stored[k].Path) > 0
        /\ At(Stored[k].Path, 1) = "/"
        /\ (Len(Stored[k].Path) > 1
               => At(Stored[k].Path, Len(Stored[k].Path)) # "/")

\* C32: every stored cookie has a path that begins with "/".  A cookie that
\* SetCookies wrote with a Path attribute beginning with "/" has that
\* attribute as its path, a last "/" included; a cookie written without
\* such an attribute has a path that does not end in "/" unless it is "/"
\* or the last "/" of the request path follows another "/".
DefaultPathShape ==
    /\ \A k \in 1..Len(Stored) :
           Len(Stored[k].Path) > 0 /\ At(Stored[k].Path, 1) = "/"
    /\ last.op = "SetCookies"
           => \A i \in 1..Len(last.acts) :
                  last.acts[i].action \in {"createCookie", "updateCookie"}
                      => LET attr == last.cookies[i].Path
                             path == last.acts[i].cookie.Path
                             slash == LastIndex(last.u.Path, "/")
                         IN  /\ \E k \in 1..Len(Stored) :
                                    /\ Stored[k].Name = last.cookies[i].Name
                                    /\ Stored[k].Path = path
                             /\ IF Len(attr) > 0 /\ At(attr, 1) = "/"
                                THEN path = attr
                                ELSE \/ path = "/"
                                     \/ At(path, Len(path)) # "/"
                                     \/ /\ slash > 0
                                        /\ At(last.u.Path, slash) = "/"

DefaultPathShapeWitness ==
    /\ last.op = "SetCookies"
    /\ \E k, l \in 1..Len(Stored) :
           /\ Stored[k].Name = "m" /\ Stored[k].Path = "/some/"
           /\ Stored[l].Name = "k" /\ Stored[l].Path = "/abc"

(***************************************************************************)
(* Slots of a FlatStorage: a jar on a FlatStorage with MaxCookies 0 or     *)
(* MaxSlots (TestHonourLastAccesInCleanup sets storage.MaxCookies); one    *)
(* host sets three session cookies and one that expires one tick before    *)
(* the clock stops, one cookie a call.                                     *)
(***************************************************************************)
MaxSlots == 2

SpecFind ==
    /\ \E max \in {0, MaxSlots} :
          NewJar(0, 0, 0, FALSE, FALSE,
                 [NewFlatStorage EXCEPT !.MaxCookies = max], MaxClock - 2)
    /\ [][Next(OneHostURLs,
               Singles({Recv(n, "v", "", "", 0, 0, FALSE) : n \in {"n", "m", "k"}}
                       \cup {Recv("e", "v", "", "", MaxClock - 1, 0, FALSE)}))]_vars

\* C33: Find, as SetCookies calls it for one cookie that asks for no
\* deletion, never fails.  It
\* returns the stored cookie of the identity when there is one; otherwise
\* the cookie it returns sits in the slot of a cookie expired at now when
\* there is one, else, when MaxCookies > 0 and the list has MaxCookies
\* entries, in the slot of the cookie with the smallest LastAccess, else in
\* a slot appended to the list; the list grows in the last case only.
FindSlot ==
    [][(/\ last'.op = "SetCookies"
        /\ Len(last'.cookies) = 1
        /\ ~deleteRequest(last'.cookies[1], last'.now))
          => LET recv == last'.cookies[1]
                 fc == storage.cookies
                 pre == BeforeCleanup(jar, storage, theRuleCache, last').cookies
                 known == {k \in 1..Len(fc) :
                              /\ fc[k].Domain = HostOf(last'.u)
                              /\ fc[k].Path = "/"
                              /\ fc[k].Name = recv.Name}
                 expired == {k \in 1..Len(fc) :
                                fc[k].Expires # 0 /\ fc[k].Expires < last'.now}
                 Reused(k) ==
                     /\ Len(pre) = Len(fc)
                     /\ pre[k].Name = recv.Name
                     /\ \A j \in 1..Len(fc) : j # k => pre[j] = fc[j]
             IN  /\ ~last'.panic
                 /\ IF known # {}
                    THEN /\ last'.acts[1].action = "updateCookie"
                         /\ Len(pre) = Len(fc)
                    ELSE /\ last'.acts[1].action = "createCookie"
                         /\ IF expired # {}
                            THEN \E k \in expired : Reused(k)
                            ELSE IF storage.MaxCookies > 0
                                      /\ Len(fc) >= storage.MaxCookies
                            THEN \E k \in 1..Len(fc) :
                                     /\ Reused(k)
                                     /\ \A j \in 1..Len(fc) :
                                            fc[k].LastAccess <= fc[j].LastAccess
                            ELSE /\ Len(pre) = Len(fc) + 1
                                 /\ pre[Len(pre)].Name = recv.Name
                                 /\ SubSeq(pre, 1, Len(fc)) = fc]_vars

(***************************************************************************)
(* leastUsed on its own: newLeastUsed(n) and then up to MaxCandidates      *)
(* calls of insert with cookies of any LastAccess, each with the number of *)
(* the call as its data.  last.cookies holds the heap items handed in and  *)
(* last.ret the leastUsed.                                                 *)
(***************************************************************************)
MaxKept == 3
MaxCandidates == 4

SpecLeastUsed ==
    /\ NewJar(0, 0, 0, FALSE, FALSE, NewFlatStorage, 0)
    /\ [][\/ /\ last.op = "NewJar"
              /\ \E n \in 1..MaxKept :
                     last' = Call("newLeastUsed", last.u, <<>>, 0, 0,
                                  newLeastUsed(n), <<>>, FALSE)
              /\ UNCHANGED <<jar, storage, theRuleCache, clock, goroutines>>
           \/ /\ last.op \in {"newLeastUsed", "insert"}
              /\ Len(last.cookies) < MaxCandidates
              /\ \E t \in 0..MaxClock :
                     LET cookie == [ZeroCookie EXCEPT !.LastAccess = t]
                         data == Len(last.cookies) + 1
                     IN  last' = Call("insert", last.u,
                                      Append(last.cookies,
                                             [cookie |-> cookie, data |-> data]),
                                      0, 0, insert(last.ret, cookie, data),
                                      <<>>, FALSE)
              /\ UNCHANGED <<jar, storage, theRuleCache, clock, goroutines>>]_vars

\* C34: after the calls of insert on a leastUsed made with n >= 1,
\* elements() holds the smaller of n and the number of calls many items,
\* each of them one of the items handed in with the data handed in with
\* it and none twice, and every cookie handed in and not held has a
\* LastAccess not before that of any cookie held.
LeastUsedKept ==
    last.op = "insert"
        => LET held == elements(last.ret)
               N == Len(last.cookies)
               kept == {held[i].data : i \in 1..Len(held)}
           IN  /\ Len(held) = IF N < last.ret.n THEN N ELSE last.ret.n
               /\ Len(held) <= last.ret.n
               /\ Cardinality(kept) = Len(held)
               /\ kept \subseteq 1..N
               /\ \A i \in 1..Len(held) : last.cookies[held[i].data] = held[i]
               /\ \A c \in (1..N) \ kept : \A i \in 1..Len(held) :
                      last.cookies[c].cookie.LastAccess
                          >= held[i].cookie.LastAccess

LeastUsedKeptWitness ==
    /\ last.op = "insert"
    /\ Len(last.cookies) = MaxCandidates
    /\ last.ret.n = 2
    /\ last.cookies[1].cookie.LastAccess > last.cookies[MaxCandidates].cookie.LastAccess
    /\ last.cookies[2].cookie.LastAccess < last.cookies[3].cookie.LastAccess

(***************************************************************************)
(* The public suffix functions on their own (TestEffectiveTldPlusOne,      *)
(* TestAllowCookiesOn): the rule cache is made anew with 1..MaxCache       *)
(* entries, as TestRuleCache does, and effectiveTldPlusOne, allowCookiesOn *)
(* and findDomainRule are called for domains of the test tables in any     *)
(* order.  last.u.Host is the domain, last.ret what the call returned and  *)
(* last.acts whether the rule cache held the domain before the call.       *)
(***************************************************************************)
MaxCache == 2

SpecSuffix ==
    /\ NewJar(0, 0, 0, FALSE, FALSE, NewFlatStorage, 0)
    /\ [][\/ /\ last.op = "NewJar"
              /\ \E size \in 1..MaxCache : theRuleCache' = NewRuleCache(size)
              /\ last' = Call("ruleCache", last.u, <<>>, 0, 0, <<>>, <<>>, FALSE)
              /\ UNCHANGED <<jar, storage, clock, goroutines>>
           \/ /\ last.op # "NewJar"
              /\ \E domain \in {"example", "example.example", "b.example.example",
                                 "something.strange", "com", "b.example.com",
                                 "c.kyoto.jp", "b.c.kyoto.jp",
                                 "www.pref.kyoto.jp", "co.uk", "bbc.co.uk"} :
                     LET Ret(op, e, ret) ==
                             /\ theRuleCache' = e.rc
                             /\ last' = Call(op, URL("", domain, ""), <<>>, 0, 0,
                                             ret,
                                             <<lookup(theRuleCache, domain).found>>,
                                             FALSE)
                         Etld(e) ==
                             Ret("effectiveTldPlusOne", e,
                                 [etldp1 |-> e.etldp1, tooShort |-> e.tooShort])
                         Allow(e) == Ret("allowCookiesOn", e, e.allow)
                         Rule(e) == Ret("findDomainRule", e, e.rule)
                     IN  \/ Etld(effectiveTldPlusOne(theRuleCache, domain))
                         \/ Allow(allowCookiesOn(theRuleCache, domain))
                         \/ Rule(findDomainRule(theRuleCache, domain))
              /\ UNCHANGED <<jar, storage, clock, goroutines>>]_vars

UnlistedTooShort ==
    LET labels == Split(last.u.Host)
    IN  labels[Len(labels)] \notin domainRulesTLDs
            => /\ last.op = "effectiveTldPlusOne" => last.ret.tooShort
               /\ last.op = "allowCookiesOn" => ~last.ret

\* C37: findDomainRule returns, with any rule cache that earlier calls
\* left, the first rule of the rules of the TLD that matches the domain,
\* or nil.
CacheTransparent ==
    last.op = "findDomainRule"
        => LET domain == last.u.Host
               i == LastIndex(domain, ".")
           IN  last.ret
                   = firstMatch(domainRules(IF i # -1
                                            THEN SubSeq(domain, i + 2, Len(domain))
                                            ELSE domain),
                                IF i # -1 THEN SubSeq(domain, 1, i) ELSE "", 1)

\* a rule out of a full cache that has overwritten its first entry
CacheTransparentWitness ==
    /\ last.op = "findDomainRule"
    /\ last.acts = <<TRUE>>
    /\ last.ret.kind = 1
    /\ Len(theRuleCache.cache) = MaxCache
    /\ theRuleCache.idx = 1
    /\ \A k \in 1..Len(theRuleCache.cache) : theRuleCache.cache[k].domain # ""

(***************************************************************************)
(* The rule cache on its own (TestRuleCache): the cache is made anew with  *)
(* 1..MaxCache entries, then domains not stored before are stored, each    *)
(* with a rule of its own, and domains are looked up.  last.cookies holds  *)
(* the domains stored so far in the order of the calls, last.access the    *)
(* number of entries the cache was made with and last.ret what lookup      *)
(* returned.                                                               *)
(***************************************************************************)
SpecRuleCache ==
    /\ NewJar(0, 0, 0, FALSE, FALSE, NewFlatStorage, 0)
    /\ [][\/ /\ last.op = "NewJar"
              /\ \E size \in 1..MaxCache :
                     /\ theRuleCache' = NewRuleCache(size)
                     /\ last' = Call("ruleCache", last.u, <<>>, 0, size, <<>>,
                                     <<>>, FALSE)
              /\ UNCHANGED <<jar, storage, clock, goroutines>>
           \/ /\ last.op # "NewJar"
              /\ \E domain \in {"a", "b", "c", "d"} :
                     /\ \A k \in 1..Len(last.cookies) : last.cookies[k] # domain
                     /\ theRuleCache' = store(theRuleCache, domain,
                                              [rule |-> domain, kind |-> 0,
                                               nil |-> FALSE])
                     /\ last' = Call("store", URL("", domain, ""),
                                     Append(last.cookies, domain), 0,
                                     last.access, <<>>, <<>>, FALSE)
              /\ UNCHANGED <<jar, storage, clock, goroutines>>
           \/ /\ last.op # "NewJar"
              /\ \E domain \in {"a", "b", "c", "d"} :
                     last' = Call("lookup", URL("", domain, ""), last.cookies, 0,
                                  last.access, lookup(theRuleCache, domain),
                                  <<>>, FALSE)
              /\ UNCHANGED <<jar, storage, theRuleCache, clock, goroutines>>]_vars

\* C40: after any stores of distinct domains in a rule cache made with c
\* entries the cache has c entries still, lookup finds the domains of the
\* last c stores (of all stores when there were fewer), each with the rule
\* stored with it, and none of the domains stored before them.
RingReplacement ==
    last.op \in {"store", "lookup"}
        => LET stores == last.cookies
               Held(k) == k > Len(stores) - last.access
           IN  /\ Len(theRuleCache.cache) = last.access
               /\ \A k \in 1..Len(stores) :
                      /\ lookup(theRuleCache, stores[k]).found <=> Held(k)
                      /\ Held(k) => lookup(theRuleCache, stores[k]).rule.rule
                                         = stores[k]
               /\ last.op = "lookup"
                      => last.ret.found
                            <=> \E k \in 1..Len(stores) :
                                    stores[k] = last.u.Host /\ Held(k)

\* TestRuleCache: two entries; a, b and c stored; a is gone, b and c are
\* found
RingReplacementWitness ==
    /\ last.op = "lookup"
    /\ last.access = 2
    /\ last.cookies = <<"a", "b", "c">>
    /\ last.u.Host = "a"
    /\ ~last.ret.found
    /\ lookup(theRuleCache, "b").found
    /\ lookup(theRuleCache, "c").found

(***************************************************************************)
(* Keys of a FancyStorage: with and without AllowAllDomains, on either     *)
(* kind of key, hosts under co.uk and under kyoto.jp set a host cookie and *)
(* domain cookies for their domain and for the domains above it.           *)
(***************************************************************************)
SpecKey ==
    /\ \E all, tldPlusOne \in BOOLEAN :
          NewJar(0, 0, 0, FALSE, all, NewFancyStorage(tldPlusOne), MaxClock)
    /\ [][Next({URL("http", "www.bbc.co.uk", "/"),
                URL("http", "a.b.kyoto.jp", "/")},
               Singles({Recv("n", "v", d, "", 0, 0, FALSE) :
                           d \in {"", "bbc.co.uk", "co.uk", "kyoto.jp"}}))]_vars

\* C38: a stored cookie that domain-matches the host of a call lies in the
\* bucket of that host: the key of the cookie's domain is the key of the
\* host.
KeyConsistent ==
    last.op \in {"SetCookies", "Cookies"}
        => \A k \in 1..Len(Stored) :
               domainMatch(Stored[k], HostOf(last.u))
                   => key(storage, theRuleCache, Stored[k].Domain).key
                          = key(storage, theRuleCache, HostOf(last.u)).key

\* C39: a call of Cookies leaves the jar's counters and the storage as they
\* were but for the LastAccess of cookies it returns: the same cookies are
\* stored in the same places, those expired included, every field other
\* than LastAccess is unchanged, and a cookie whose LastAccess differs is
\* among the cookies returned.
CookiesFrame ==
    [][last'.op = "Cookies"
          => LET Back(after, before) ==
                     /\ Len(after) = Len(before)
                     /\ \A k \in 1..Len(after) :
                            /\ [after[k] EXCEPT !.LastAccess = before[k].LastAccess]
                                   = before[k]
                            /\ after[k].LastAccess # before[k].LastAccess
                                   => \E i \in 1..Len(last'.ret) :
                                          last'.ret[i] = before[k]
             IN  /\ jar' = jar
                 /\ storage'.kind = storage.kind
                 /\ IF storage.kind = "flat"
                    THEN Back(storage'.cookies, storage.cookies)
                    ELSE /\ DOMAIN storage'.flat = DOMAIN storage.flat
                         /\ \A b \in DOMAIN storage.flat :
                                Back(storage'.flat[b], storage.flat[b])]_vars

\* Cookies has returned a cookie and written its LastAccess while a cookie
\* that had expired before the call is still stored
CookiesFrameWitness ==
    /\ last.op = "Cookies"
    /\ Len(last.ret) > 0
    /\ \E k \in 1..Len(Stored) :
           Stored[k].Expires # 0 /\ Stored[k].Expires < last.now
    /\ \E k \in 1..Len(Stored) :
           /\ Stored[k].Name = last.ret[1].Name
           /\ Stored[k].Path = last.ret[1].Path
           /\ Stored[k].LastAccess > last.ret[1].LastAccess

====
